---------------------------- MODULE Spec2Model ----------------------------
(***************************************************************************)
(* A model of the entry persistence core of the journalist repository:     *)
(* the bullet/entry data model (src/src/entities.rs), the text codec       *)
(* (src/src/infrastructure/parser.rs), the DuckDB storage backend and its  *)
(* migration runner (src/src/infrastructure/duckdb_storage.rs), the file   *)
(* backend and its write hooks (filesystem.rs, hooks.rs) and the journal   *)
(* cache (Journal in entities.rs).                                         *)
(*                                                                         *)
(* Conventions.  A Rust String is a sequence of tokens; a token is one     *)
(* character ("#", " ", "\n") or one word that is never split ("x",        *)
(* "Tasks").  Option<T> is a sequence of length 0 (None) or 1 (Some).      *)
(* A calendar date is its day number; the "%Y-%m-%d" text of a date is     *)
(* order preserving and one-to-one, so the day number stands for it.       *)
(***************************************************************************)
EXTENDS Integers, Sequences, FiniteSets, TLC

VARIABLES
    cDate,      \* codec: the date handed to parse
    cEntry,     \* codec: the Entry in the caller's hands
    cText,      \* codec: the text in the caller's hands
    cSrc,       \* codec: Option<Entry>, the Entry the text was serialized from
    cOp,        \* codec: the last codec operation
    cVia,       \* codec: where the text that was parsed last came from
    tbl,        \* database: the rows of the bullets table, in id order
    sOp,        \* database: the last call on the storage handle and its outcome
    migDir,     \* migrations: the files of the migrations directory, in read_dir order
    migTable,   \* migrations: the rows (version, name) of the migrations table
    migSchema,  \* migrations: per migration name, what its body has done to the database
    migRun,     \* migrations: the initialize() calls so far and what they did
    migProc,    \* migrations: per process that starts at the same time, its initialize() run
    fsFiles,    \* file backend: per date, Option<text> of its entry.md
    hookReg,    \* file backend: the hook registry, in registration order
    writeLog,   \* hooks: the number of lines of write_log.txt
    syncTbl,    \* hooks: the bullets table of the database the sync hook writes
    fsOp,       \* file backend: the save calls so far and what the last one did
    jKind,      \* journal: the backend behind its repository, "db" or "file"
    jCache,     \* journal: Journal.entries, per date Option<Entry>
    jTbl,       \* journal: the bullets table of its database backend
    jFiles,     \* journal: the files of its file backend
    jOp,        \* journal: the last call and its outcome
    bTbl,       \* both backends: the bullets table of the database backend
    bFiles,     \* both backends: the files of the file backend
    bOp,        \* both backends: the last call made on both and what each returned
    kTbl,       \* threads: the bullets table of the database the handles are open on
    kLock,      \* threads: per handle, the thread that holds the guard of its conn
    kThr,       \* threads: per thread, its handle and where it is in its call
    blt         \* bullets: the Bullet in the caller's hands and the call that made it

codecVars == <<cDate, cEntry, cText, cSrc, cOp, cVia>>
storeVars == <<tbl, sOp>>
migVars == <<migDir, migTable, migSchema, migRun, migProc>>
fsVars == <<fsFiles, hookReg, writeLog, syncTbl, fsOp>>
jVars == <<jKind, jCache, jTbl, jFiles, jOp>>
bVars == <<bTbl, bFiles, bOp>>
kVars == <<kTbl, kLock, kThr>>

vars == <<cDate, cEntry, cText, cSrc, cOp, cVia, tbl, sOp,
          migDir, migTable, migSchema, migRun, migProc,
          fsFiles, hookReg, writeLog, syncTbl, fsOp,
          jKind, jCache, jTbl, jFiles, jOp,
          bTbl, bFiles, bOp, kTbl, kLock, kThr, blt>>

---------------------------------------------------------------------------
(* Bounds of the model *)

NumDates == 2
CodecMaxBullets == 2
CodecMaxLines == 3
StoreDates == 1
StoreMaxBullets == 2
MigMaxFiles == 3
MigMaxRuns == 2
FsDates == 1
FsMaxHooks == 2
FsMaxSaves == 2
JDates == 1
RangeDates == 2
JMaxBullets == 1
BackendDates == 2
QueryDates == 2
ConcMaxCalls == 2

Dates == 1..NumDates

---------------------------------------------------------------------------
(* entities.rs: BulletType, TaskState, Bullet, Entry *)

None == <<>>
Some(x) == <<x>>

BulletType ==
    {"Task", "Event", "Note", "Priority", "Inspiration", "Insight", "Misstep"}

TaskState == {"Pending", "Completed", "Migrated", "Scheduled"}

\* Bullet::new: Task and Priority start Pending, every other type has no state.
Bullet_new(content, bullet_type) ==
    [content |-> content,
     bullet_type |-> bullet_type,
     task_state |-> IF bullet_type \in {"Task", "Priority"}
                    THEN Some("Pending") ELSE None]

Bullet_with_task_state(content, bullet_type, state) ==
    [content |-> content, bullet_type |-> bullet_type, task_state |-> Some(state)]

\* Entry::new: the bullets map has no key at all.
Entry_new(date) == [date |-> date, bullets |-> [t \in {} |-> <<>>]]

\* Entry::add_bullet: entry(type).or_insert_with(Vec::new).push(bullet)
add_bullet(e, b) ==
    LET t == b.bullet_type
        old == IF t \in DOMAIN e.bullets THEN e.bullets[t] ELSE <<>>
    IN [e EXCEPT !.bullets =
            [k \in (DOMAIN e.bullets) \cup {t} |->
                IF k = t THEN Append(old, b) ELSE e.bullets[k]]]

get_bullets(e, t) == IF t \in DOMAIN e.bullets THEN e.bullets[t] ELSE <<>>

RECURSIVE SumLen(_, _)
SumLen(f, keys) ==
    IF keys = {} THEN 0
    ELSE LET k == CHOOSE x \in keys : TRUE
         IN Len(f[k]) + SumLen(f, keys \ {k})

total_bullets(e) == SumLen(e.bullets, DOMAIN e.bullets)

is_empty(e) == \A t \in DOMAIN e.bullets : e.bullets[t] = <<>>

\* The Entry a caller builds with Entry::new and one add_bullet per bullet.
RECURSIVE EntryOfFrom(_, _, _)
EntryOfFrom(e, bs, i) ==
    IF i > Len(bs) THEN e ELSE EntryOfFrom(add_bullet(e, bs[i]), bs, i + 1)

EntryOf(date, bs) == EntryOfFrom(Entry_new(date), bs, 1)

\* All sequences over S of length at most n.
SeqsUpTo(S, n) == UNION {[1..k -> S] : k \in 0..n}

---------------------------------------------------------------------------
(* parser.rs: MarkdownParser *)

NL == "\n"
SP == " "
HASH == "#"

\* The section table of serialize and serialize_for_editing, in its order.
\* The sections in the order of their names.
SectionsByName == <<"Event", "Insight", "Inspiration", "Misstep", "Note", "Priority", "Task">>

Sections == <<"Task", "Event", "Note", "Priority", "Inspiration", "Insight", "Misstep">>

SectionWord(t) ==
    CASE t = "Task" -> "Tasks"
      [] t = "Event" -> "Events"
      [] t = "Note" -> "Notes"
      [] t = "Priority" -> "Priority"
      [] t = "Inspiration" -> "Inspiration"
      [] t = "Insight" -> "Insights"
      [] t = "Misstep" -> "Missteps"

\* "# Tasks", "# Events", ...
SectionHeader(t) == <<HASH, SP, SectionWord(t)>>

\* str::to_lowercase on one token.
LowerTok(tok) ==
    CASE tok \in {"Tasks", "TASKS"} -> "tasks"
      [] tok \in {"Events", "EVENTS"} -> "events"
      [] tok = "Notes" -> "notes"
      [] tok = "Priority" -> "priority"
      [] tok = "Inspiration" -> "inspiration"
      [] tok = "Insights" -> "insights"
      [] tok = "Missteps" -> "missteps"
      [] tok = "X" -> "x"
      [] OTHER -> tok

\* A comparison that keeps the case of the line.
keep_case(s) == s

to_lowercase(s) == [i \in 1..Len(s) |-> LowerTok(s[i])]

\* The match of parse on the lower-cased header line.
HeaderType(low) ==
    CASE low = <<HASH, SP, "tasks">> -> Some("Task")
      [] low = <<HASH, SP, "events">> -> Some("Event")
      [] low = <<HASH, SP, "notes">> -> Some("Note")
      [] low = <<HASH, SP, "priority">> -> Some("Priority")
      [] low = <<HASH, SP, "inspiration">> -> Some("Inspiration")
      [] low = <<HASH, SP, "insights">> -> Some("Insight")
      [] low = <<HASH, SP, "missteps">> -> Some("Misstep")
      [] OTHER -> None

IsWhite(tok) == tok \in {SP, NL}

\* str::trim: drop leading and trailing whitespace.
RECURSIVE TrimStart(_)
TrimStart(s) ==
    IF s # <<>> /\ IsWhite(Head(s)) THEN TrimStart(Tail(s)) ELSE s

RECURSIVE TrimEnd(_)
TrimEnd(s) ==
    IF s # <<>> /\ IsWhite(s[Len(s)]) THEN TrimEnd(SubSeq(s, 1, Len(s) - 1)) ELSE s

trim(s) == TrimEnd(TrimStart(s))

\* str::lines: split at each "\n"; a final line with no "\n" counts when it is
\* not empty.
RECURSIVE LinesFrom(_, _, _)
LinesFrom(s, i, cur) ==
    IF i > Len(s) THEN (IF cur = <<>> THEN <<>> ELSE <<cur>>)
    ELSE IF s[i] = NL THEN <<cur>> \o LinesFrom(s, i + 1, <<>>)
    ELSE LinesFrom(s, i + 1, Append(cur, s[i]))

lines(s) == LinesFrom(s, 1, <<>>)

\* A turn of the loop in which an unknown header leaves the section open.
ParseLineKeepsSection(st, raw) ==
    LET line == trim(raw) IN
    IF line = <<>> THEN st
    ELSE IF Head(line) = HASH
         THEN IF HeaderType(to_lowercase(line)) = None THEN st
              ELSE [st EXCEPT !.current = HeaderType(to_lowercase(line))]
    ELSE IF st.current # None
         THEN [st EXCEPT !.entry = add_bullet(st.entry, Bullet_new(line, st.current[1]))]
    ELSE st

\* One turn of the loop of parse: st is [entry, current].
ParseLine(st, raw) ==
    LET line == trim(raw) IN
    IF line = <<>> THEN st
    ELSE IF Head(line) = HASH
         THEN [st EXCEPT !.current = HeaderType(to_lowercase(line))]
    ELSE IF st.current # None
         THEN [st EXCEPT !.entry = add_bullet(st.entry, Bullet_new(line, st.current[1]))]
    ELSE st

RECURSIVE ParseFrom(_, _, _)
ParseFrom(st, ls, i) ==
    IF i > Len(ls) THEN st ELSE ParseFrom(ParseLine(st, ls[i]), ls, i + 1)

\* MarkdownParser::parse
parse(date, content) ==
    ParseFrom([entry |-> Entry_new(date), current |-> None], lines(content), 1).entry

\* A loop that writes the contents of one section on a single line.
RECURSIVE ConcatContentsSpaced(_, _)
ConcatContentsSpaced(bs, i) ==
    IF i > Len(bs) THEN <<NL>>
    ELSE bs[i].content \o <<SP>> \o ConcatContentsSpaced(bs, i + 1)

RECURSIVE ConcatContents(_, _)
ConcatContents(bs, i) ==
    IF i > Len(bs) THEN <<>>
    ELSE bs[i].content \o <<NL>> \o ConcatContents(bs, i + 1)

\* A loop body that writes the header of a section without bullets too.
SerializeSectionAlways(e, t) ==
    SectionHeader(t) \o <<NL>> \o ConcatContents(get_bullets(e, t), 1) \o <<NL>>

\* The body of the loop of serialize for one section.
SerializeSection(e, t) ==
    LET bullets == get_bullets(e, t) IN
    IF bullets # <<>>
    THEN SectionHeader(t) \o <<NL>> \o ConcatContents(bullets, 1) \o <<NL>>
    ELSE <<>>

RECURSIVE SerializeFrom(_, _)
SerializeFrom(e, i) ==
    IF i > Len(Sections) THEN <<>>
    ELSE SerializeSection(e, Sections[i]) \o SerializeFrom(e, i + 1)

\* MarkdownParser::serialize
serialize(e) == SerializeFrom(e, 1)

\* A loop body that leaves out the header of a section without bullets.
EditingSectionSkipsEmpty(e, t) ==
    IF get_bullets(e, t) # <<>>
    THEN SectionHeader(t) \o <<NL>> \o ConcatContents(get_bullets(e, t), 1) \o <<NL>>
    ELSE <<>>

\* The body of the loop of serialize_for_editing for one section.
EditingSection(e, t) ==
    SectionHeader(t) \o <<NL>> \o ConcatContents(get_bullets(e, t), 1) \o <<NL>>

RECURSIVE EditingFrom(_, _)
EditingFrom(e, i) ==
    IF i > Len(Sections) THEN <<>>
    ELSE EditingSection(e, Sections[i]) \o EditingFrom(e, i + 1)

\* MarkdownParser::serialize_for_editing
serialize_for_editing(e) == EditingFrom(e, 1)

\* MarkdownParser::empty_template, the literal of the source
empty_template ==
    <<HASH, SP, "Tasks", NL, NL, HASH, SP, "Events", NL, NL,
      HASH, SP, "Notes", NL, NL, HASH, SP, "Priority", NL, NL,
      HASH, SP, "Inspiration", NL, NL, HASH, SP, "Insights", NL, NL,
      HASH, SP, "Missteps", NL, NL>>

---------------------------------------------------------------------------
(* The callers of the codec: entries built through the public constructors *)
(* and texts an editor hands back.                                         *)

\* Bullet contents a caller may pass to Bullet::new: plain words, a content
\* with leading whitespace, contents starting with '#', the empty content.
CodecBullets ==
    {Bullet_new(<<"x">>, t) : t \in BulletType}
    \cup {Bullet_new(<<"y">>, "Task"), Bullet_new(<<"y", SP, "x">>, "Misstep"),
          Bullet_new(<<SP, "x">>, "Task"), Bullet_new(<<HASH, "x">>, "Note"),
          Bullet_new(<<HASH, SP, "Events">>, "Task"), Bullet_new(<<>>, "Event")}

CodecEntries(date) ==
    {EntryOf(date, bs) : bs \in SeqsUpTo(CodecBullets, CodecMaxBullets)}

\* Lines of an edited file.
CodecLines ==
    {<<HASH, SP, "TASKS">>, <<HASH, SP, "events">>, <<SP, HASH, SP, "Notes", SP>>,
     <<HASH, SP, "bogus">>, <<HASH, "tasks">>, <<"X">>, <<SP, "y", SP>>, <<>>}

RECURSIVE JoinLines(_, _)
JoinLines(ls, i) ==
    IF i > Len(ls) THEN <<>> ELSE ls[i] \o <<NL>> \o JoinLines(ls, i + 1)

CodecTexts == {JoinLines(ls, 1) : ls \in SeqsUpTo(CodecLines, CodecMaxLines)}

\* The codec before any call, as the other specifications hold it.
CodecIdle ==
    /\ cDate = 1
    /\ cEntry = Entry_new(1)
    /\ cText = <<>>
    /\ cSrc = None
    /\ cOp = "entry"
    /\ cVia = "none"

\* A codec call touches nothing but the caller's entry and text.
CodecOnly == UNCHANGED <<storeVars, migVars, fsVars, jVars, bVars, kVars, blt>>

CodecInit ==
    /\ cDate \in Dates
    /\ cSrc = None
    /\ cVia = "none"
    /\ \/ /\ cOp = "entry"
          /\ cEntry \in CodecEntries(cDate)
          /\ cText = <<>>
       \/ /\ cOp = "raw"
          /\ cEntry = Entry_new(cDate)
          /\ cText \in CodecTexts

CodecSerialize ==
    /\ cOp \in {"entry", "parsed"}
    /\ cText' = serialize(cEntry)
    /\ cSrc' = Some(cEntry)
    /\ cOp' = "serialize"
    /\ UNCHANGED <<cDate, cEntry, cVia>>
    /\ CodecOnly

CodecSerializeForEditing ==
    /\ cOp \in {"entry", "parsed"}
    /\ cText' = serialize_for_editing(cEntry)
    /\ cSrc' = Some(cEntry)
    /\ cOp' = "serialize_for_editing"
    /\ UNCHANGED <<cDate, cEntry, cVia>>
    /\ CodecOnly

CodecTemplate ==
    /\ cOp \in {"entry", "parsed"}
    /\ cText' = empty_template
    /\ cSrc' = None
    /\ cOp' = "empty_template"
    /\ UNCHANGED <<cDate, cEntry, cVia>>
    /\ CodecOnly

CodecParse ==
    /\ cOp \in {"raw", "serialize", "serialize_for_editing", "empty_template"}
    /\ cEntry' = parse(cDate, cText)
    /\ cVia' = cOp
    /\ cOp' = "parsed"
    /\ UNCHANGED <<cDate, cText, cSrc>>
    /\ CodecOnly

CodecNext ==
    \/ CodecSerialize
    \/ CodecSerializeForEditing
    \/ CodecTemplate
    \/ CodecParse

---------------------------------------------------------------------------
(* duckdb_storage.rs: DuckDbStorage as EntryStorage.  The bullets table is *)
(* the sequence of its rows in id order; its schema lives in the           *)
(* migration scripts, and a row inserted without an id gets the next id.   *)

StoreDateSet == 1..StoreDates

\* date.format("%Y-%m-%d").to_string() and NaiveDate::parse_from_str
FormatDate(d) == [ymd |-> d]
ParseDate(s) == s.ymd

\* impl Display for BulletType
BulletTypeStr(t) ==
    CASE t = "Task" -> "task"
      [] t = "Event" -> "event"
      [] t = "Note" -> "note"
      [] t = "Priority" -> "priority"
      [] t = "Inspiration" -> "inspiration"
      [] t = "Insight" -> "insight"
      [] t = "Misstep" -> "misstep"

\* impl Display for TaskState
TaskStateStr(s) ==
    CASE s = "Pending" -> "pending"
      [] s = "Completed" -> "completed"
      [] s = "Migrated" -> "migrated"
      [] s = "Scheduled" -> "scheduled"

\* The match on type_str of load_entry; None is its `_ => continue`.
BulletTypeOfStr(s) ==
    CASE s = "task" -> Some("Task")
      [] s = "event" -> Some("Event")
      [] s = "note" -> Some("Note")
      [] s = "priority" -> Some("Priority")
      [] s = "inspiration" -> Some("Inspiration")
      [] s = "insight" -> Some("Insight")
      [] s = "misstep" -> Some("Misstep")
      [] OTHER -> None

\* task_state_str.and_then(|s| match s.as_str() { ... })
TaskStateOfStr(o) ==
    IF o = None THEN None
    ELSE CASE o[1] = "pending" -> Some("Pending")
           [] o[1] = "completed" -> Some("Completed")
           [] o[1] = "migrated" -> Some("Migrated")
           [] o[1] = "scheduled" -> Some("Scheduled")
           [] OTHER -> None

\* The rows of t that satisfy keep, in t's order.
RECURSIVE SelectRows(_, _, _)
SelectRows(t, keep(_), i) ==
    IF i > Len(t) THEN <<>>
    ELSE (IF keep(t[i]) THEN <<t[i]>> ELSE <<>>) \o SelectRows(t, keep, i + 1)

\* "SELECT content, type, task_state FROM bullets WHERE date = ? ORDER BY id"
SelectByDateMergesDates(t, date_str) == t
SelectByDate(t, date_str) ==
    LET OfDate(r) == r.date = date_str IN SelectRows(t, OfDate, 1)

\* "DELETE FROM bullets WHERE date = ?"
DeleteByDateKeepsRows(t, date_str) == t
DeleteAllRows(t, date_str) == <<>>
DeleteByDate(t, date_str) ==
    LET Other(r) == r.date # date_str IN SelectRows(t, Other, 1)

\* "INSERT INTO bullets (date, content, type, task_state) VALUES (?, ?, ?, ?)":
\* the new row gets the highest id.
InsertRow(t, row) == Append(t, row)

\* One turn of the row loop of load_entry.
LoadRow(entry, r) ==
    LET bt == BulletTypeOfStr(r.type) IN
    IF bt = None THEN entry
    ELSE add_bullet(entry, [content |-> r.content,
                            bullet_type |-> bt[1],
                            task_state |-> TaskStateOfStr(r.task_state)])

RECURSIVE LoadRows(_, _, _)
LoadRows(entry, rows, i) ==
    IF i > Len(rows) THEN entry ELSE LoadRows(LoadRow(entry, rows[i]), rows, i + 1)

\* DuckDbStorage::load_entry when no statement fails: Option<Entry>
load_entry(t, date) ==
    LET rows == SelectByDate(t, FormatDate(date))
        has_bullets == rows # <<>>
    IN IF has_bullets THEN Some(LoadRows(Entry_new(date), rows, 1)) ELSE None

\* The parameters of the INSERT for one bullet stored under key bullet_type.
RowOf(date_str, bullet_type, bullet) ==
    [date |-> date_str,
     content |-> bullet.content,
     type |-> BulletTypeStr(bullet_type),
     task_state |-> IF bullet.task_state = None THEN None
                    ELSE Some(TaskStateStr(bullet.task_state[1]))]

RECURSIVE RowsOfKey(_, _, _, _)
RowsOfKey(date_str, bullet_type, bullets, i) ==
    IF i > Len(bullets) THEN <<>>
    ELSE <<RowOf(date_str, bullet_type, bullets[i])>>
             \o RowsOfKey(date_str, bullet_type, bullets, i + 1)

\* The rows save_entry inserts, in the order of its two loops; keys is the
\* order in which the HashMap hands out its keys.
RECURSIVE RowsOfEntry(_, _, _)
RowsOfEntry(entry, keys, i) ==
    IF i > Len(keys) THEN <<>>
    ELSE RowsOfKey(FormatDate(entry.date), keys[i], entry.bullets[keys[i]], 1)
             \o RowsOfEntry(entry, keys, i + 1)

RECURSIVE InsertRows(_, _, _, _)
InsertRows(t, rows, i, n) ==
    IF i > n THEN t ELSE InsertRows(InsertRow(t, rows[i]), rows, i + 1, n)

\* The orders in which a HashMap may hand out the keys of S.
KeyOrders(S) ==
    {f \in [1..Cardinality(S) -> S] : \A i, j \in 1..Cardinality(S) : f[i] = f[j] => i = j}

\* Where save_entry may fail: nowhere (0), at its first statement, the DELETE
\* (1), at its second, the prepare of the INSERT (2), or at the k-th execution
\* of the INSERT (2 + k).
FailPoints(entry) == 0..(2 + total_bullets(entry))

\* DuckDbStorage::save_entry: the table it leaves and whether it returned Ok.
\* Every statement is executed on its own (no transaction is opened).
save_entry(t, entry, keys, fail) ==
    LET Statements(deleted, rows) ==
            IF fail = 1 THEN [tbl |-> t, ok |-> FALSE]
            ELSE IF fail = 2 THEN [tbl |-> deleted, ok |-> FALSE]
            ELSE [tbl |-> InsertRows(deleted, rows, 1,
                                     IF fail = 0 THEN Len(rows) ELSE fail - 3),
                  ok |-> fail = 0]
    IN Statements(DeleteByDate(t, FormatDate(entry.date)), RowsOfEntry(entry, keys, 1))

\* A delete that reports a date without rows as an error.
delete_entry_strict(t, date, fail) ==
    IF fail \/ SelectByDate(t, FormatDate(date)) = <<>> THEN [tbl |-> t, ok |-> FALSE]
    ELSE [tbl |-> DeleteByDate(t, FormatDate(date)), ok |-> TRUE]

\* DuckDbStorage::delete_entry; fail tells whether the DELETE statement
\* returns an error.
delete_entry(t, date, fail) ==
    IF fail THEN [tbl |-> t, ok |-> FALSE]
    ELSE [tbl |-> DeleteByDate(t, FormatDate(date)), ok |-> TRUE]

\* DuckDbStorage::list_dates over the days start..end when no statement
\* fails: "SELECT DISTINCT date ... WHERE date BETWEEN ? AND ? ORDER BY date"
RECURSIVE list_dates(_, _, _)
list_dates(t, start, end) ==
    IF start > end THEN <<>>
    ELSE (IF SelectByDate(t, FormatDate(start)) # <<>> THEN <<ParseDate(FormatDate(start))>>
          ELSE <<>>)
             \o list_dates(t, start + 1, end)

\* The callers of the storage handle: entries of up to StoreMaxBullets bullets,
\* with two tasks in different states and an event.
StoreBullets ==
    {Bullet_new(<<"x">>, "Task"),
     Bullet_with_task_state(<<"y">>, "Task", "Completed"),
     Bullet_new(<<"z">>, "Event")}

\* The bullets of an entry in the order they were added: no bullet twice,
\* but for the entry that holds the same task twice.
StoreBulletSeqs ==
    {bs \in SeqsUpTo(StoreBullets, StoreMaxBullets) :
        \A i, j \in 1..Len(bs) : bs[i] = bs[j] => i = j}
    \cup {<<Bullet_new(<<"x">>, "Task"), Bullet_new(<<"x">>, "Task")>>}

StoreEntries(date) == {EntryOf(date, bs) : bs \in StoreBulletSeqs}

\* A date no call of the model names; the database may hold rows for it from
\* an earlier run.
BystanderDate == StoreDates + 1

BystanderRows ==
    <<[date |-> FormatDate(BystanderDate), content |-> <<"x">>,
       type |-> "task", task_state |-> Some("pending")]>>

\* sOp: op, date, ok, the entry of a successful save or what the database
\* held for the date when a delete began (entry), whether the call
\* before was a successful save of a non-empty entry for the same date
\* (after_save), and the Option<Entry> a load returned (loaded).
NoCall ==
    [op |-> "none", date |-> 0, ok |-> TRUE, entry |-> None,
     after_save |-> FALSE, loaded |-> None]

StoreInit ==
    /\ tbl \in {<<>>, BystanderRows}
    /\ sOp = NoCall

\* The storage handle before any call, as the other specifications hold it.
StoreIdle ==
    /\ tbl = <<>>
    /\ sOp = NoCall

StoreOnly == UNCHANGED <<codecVars, migVars, fsVars, jVars, bVars, kVars, blt>>

DbSaveEntry ==
    \E d \in StoreDateSet :
      \E entry \in StoreEntries(d) :
        \E keys \in KeyOrders(DOMAIN entry.bullets), fail \in FailPoints(entry) :
          LET r == save_entry(tbl, entry, keys, fail) IN
          /\ tbl' = r.tbl
          /\ sOp' = [op |-> "save_entry", date |-> d, ok |-> r.ok,
                     entry |-> IF r.ok THEN Some(entry) ELSE None,
                     after_save |-> /\ sOp.op = "save_entry"
                                    /\ sOp.ok
                                    /\ sOp.date = d
                                    /\ ~is_empty(sOp.entry[1]),
                     loaded |-> None]
          /\ StoreOnly

DbLoadEntry ==
    \E d \in StoreDateSet, fail \in BOOLEAN :
      /\ sOp' = [op |-> "load_entry", date |-> d, ok |-> ~fail, entry |-> None,
                 after_save |-> FALSE,
                 loaded |-> IF fail THEN None ELSE load_entry(tbl, d)]
      /\ UNCHANGED tbl
      /\ StoreOnly

DbDeleteEntry ==
    \E d \in StoreDateSet, fail \in BOOLEAN :
      LET r == delete_entry(tbl, d, fail) IN
      /\ tbl' = r.tbl
      /\ sOp' = [op |-> "delete_entry", date |-> d, ok |-> r.ok,
                 entry |-> load_entry(tbl, d),
                 after_save |-> FALSE, loaded |-> None]
      /\ StoreOnly

StoreNext ==
    \/ DbSaveEntry
    \/ DbLoadEntry
    \/ DbDeleteEntry

---------------------------------------------------------------------------
(* duckdb_storage.rs: the migration runner.  A file of the migrations       *)
(* directory is [prefix, rest, ext]: its name is prefix_rest.ext.  What a    *)
(* migration's SQL does is not modelled beyond whether it has run: not at   *)
(* all ("none"), up to a failing statement ("partial"), or to its end       *)
(* ("done").                                                                *)

\* version_str.parse::<i32>()
ParseI32(tok) ==
    CASE tok = "0001" -> Some(1)
      [] tok = "0002" -> Some(2)
      [] tok = "2" -> Some(2)
      [] tok = "0003" -> Some(3)
      [] OTHER -> None

\* filename.strip_suffix(".sql")
MigName(f) == <<f.prefix, f.rest>>

\* The filter of discover_migrations: the extension is "sql" and the text
\* before the first '_' parses as an i32.
RECURSIVE DiscoverFrom(_, _)
DiscoverFrom(dir, i) ==
    IF i > Len(dir) THEN <<>>
    ELSE (IF dir[i].ext = "sql" /\ ParseI32(dir[i].prefix) # None
          THEN <<[version |-> ParseI32(dir[i].prefix)[1], name |-> MigName(dir[i])]>>
          ELSE <<>>) \o DiscoverFrom(dir, i + 1)

\* migrations.sort_by_key(|(version, _, _)| *version): a stable sort.
RECURSIVE InsertSorted(_, _)
InsertSorted(sorted, m) ==
    IF sorted = <<>> THEN <<m>>
    ELSE IF sorted[Len(sorted)].version <= m.version THEN Append(sorted, m)
    ELSE Append(InsertSorted(SubSeq(sorted, 1, Len(sorted) - 1), m), sorted[Len(sorted)])

RECURSIVE SortByVersion(_, _)
SortByVersion(ms, i) ==
    IF i = 0 THEN <<>> ELSE InsertSorted(SortByVersion(ms, i - 1), ms[i])

\* A discovery that keeps the order in which read_dir hands out the files.
discover_migrations_unsorted(dir) == DiscoverFrom(dir, 1)

\* DuckDbStorage::discover_migrations
discover_migrations(dir) ==
    LET found == DiscoverFrom(dir, 1) IN SortByVersion(found, Len(found))

\* DuckDbStorage::get_applied_migrations: "SELECT version FROM migrations"
get_applied_migrations_none(table) == {}
get_applied_migrations(table) == {r.version : r \in table}

\* A run's state: the migrations table, the schema, how often each body was
\* executed in this run (exec), the migrations whose bodies were executed, in
\* the order of their execution (order), and whether the run is still going
\* (ok).
\* DuckDbStorage::apply_migration on it.  fail says where the database fails
\* in this call: "body" (its first statement), "body_partial" (a later
\* statement), "record" (the INSERT into migrations), or nowhere.  The
\* INSERT also fails when the version is in the table: version is its
\* primary key.
apply_migration(st, m, fail) ==
    LET ran == [st EXCEPT !.exec[m.name] = @ + 1, !.order = Append(@, m)] IN
    IF fail = "body" THEN [ran EXCEPT !.ok = FALSE]
    ELSE IF fail = "body_partial"
         THEN [ran EXCEPT !.ok = FALSE,
                          !.schema[m.name] = IF @ = "done" THEN "done" ELSE "partial"]
    ELSE LET done == [ran EXCEPT !.schema[m.name] = "done"] IN
         IF fail = "record" \/ (\E r \in done.table : r.version = m.version)
         THEN [done EXCEPT !.ok = FALSE]
         ELSE [done EXCEPT !.table = @ \cup {[version |-> m.version, name |-> m.name]}]

\* A loop that goes on to the next migration after one failed.
RECURSIVE RunFromContinues(_, _, _, _, _)
RunFromContinues(st, ms, applied, failure, i) ==
    IF i > Len(ms) THEN st
    ELSE IF ms[i].version \notin applied
         THEN RunFromContinues(apply_migration(st, ms[i],
                                               IF failure.k = i THEN failure.at ELSE "none"),
                               ms, applied, failure, i + 1)
    ELSE RunFromContinues(st, ms, applied, failure, i + 1)

\* The loop of run_migrations over the discovered migrations; applied is the
\* set read before the loop.  failure is [at, k]: where the database fails
\* and in the turn of which migration.
RECURSIVE RunFrom(_, _, _, _, _)
RunFrom(st, ms, applied, failure, i) ==
    IF i > Len(ms) \/ ~st.ok THEN st
    ELSE IF ms[i].version \notin applied
         THEN RunFrom(apply_migration(st, ms[i],
                                      IF failure.k = i THEN failure.at ELSE "none"),
                      ms, applied, failure, i + 1)
    ELSE RunFrom(st, ms, applied, failure, i + 1)

\* DuckDbStorage::initialize: setup_migration_system, then run_migrations
\* (discover_migrations, get_applied_migrations, the loop).
initialize(st, dir, failure) ==
    IF failure.at \in {"setup", "discover", "applied"} THEN [st EXCEPT !.ok = FALSE]
    ELSE LET ms == discover_migrations(dir)
         IN RunFrom(st, ms, get_applied_migrations(st.table), failure, 1)

\* The files a migrations directory may hold: three versioned scripts, a
\* script whose version repeats 0002's, a script with no version, and a file
\* that is no script.
MigFilePool ==
    {[prefix |-> "0001", rest |-> "initial", ext |-> "sql"],
     [prefix |-> "0002", rest |-> "add_index", ext |-> "sql"],
     [prefix |-> "0003", rest |-> "fts", ext |-> "sql"],
     [prefix |-> "2", rest |-> "again", ext |-> "sql"],
     [prefix |-> "draft", rest |-> "notes", ext |-> "sql"],
     [prefix |-> "0003", rest |-> "readme", ext |-> "txt"]}

MigNames == {MigName(f) : f \in MigFilePool}

\* read_dir hands out the files in any order.
MigDirs ==
    {d \in SeqsUpTo(MigFilePool, MigMaxFiles) :
        \A i, j \in 1..Len(d) : d[i] = d[j] => i = j}

Failures(dir) ==
    {[at |-> a, k |-> 0] : a \in {"none", "setup", "discover", "applied"}}
    \cup {[at |-> a, k |-> k] : a \in {"body", "body_partial", "record"},
                                k \in 1..Len(discover_migrations(dir))}

NoExec == [n \in MigNames |-> 0]

\* The processes that start at the same time, before any has started.
Procs == {"p1", "p2"}

NoProc == [pc |-> "start", applied |-> {}, i |-> 1, ok |-> TRUE, exec |-> NoExec]

NoProcs == [p \in Procs |-> NoProc]

\* migRun: the number of initialize() calls made (n), whether the last one
\* returned Ok (ok), whether every call before the last returned Ok
\* (earlier_ok), the bodies the last call executed (exec, and order: in the
\* order of their execution) and those every call
\* together executed (total), the applied versions when the first call
\* returned (applied_first), and the turn of the loop in which a body failed
\* in the last call, 0 for none (body_failed).
NoRun ==
    [n |-> 0, ok |-> TRUE, earlier_ok |-> TRUE, exec |-> NoExec, order |-> <<>>,
     total |-> NoExec, applied_first |-> {}, body_failed |-> 0]

MigFresh ==
    /\ migTable = {}
    /\ migSchema = [n \in MigNames |-> "none"]
    /\ migRun = NoRun
    /\ migProc = NoProcs

\* A fresh database and some migrations directory.
MigInit ==
    /\ migDir \in MigDirs
    /\ MigFresh

\* The migration runner at rest, as the other specifications hold it.
MigIdle ==
    /\ migDir = <<>>
    /\ MigFresh

MigOnly == UNCHANGED <<codecVars, storeVars, fsVars, jVars, bVars, kVars, blt>>

\* DuckDbStorage::new / in_memory: one call of initialize() on the database.
Initialize ==
    /\ migRun.n < MigMaxRuns
    /\ \E failure \in Failures(migDir) :
         LET r == initialize([table |-> migTable, schema |-> migSchema,
                              exec |-> NoExec, order |-> <<>>, ok |-> TRUE],
                             migDir, failure)
         IN /\ migTable' = r.table
            /\ migSchema' = r.schema
            /\ migRun' = [n |-> migRun.n + 1,
                          ok |-> r.ok,
                          earlier_ok |-> migRun.earlier_ok /\ migRun.ok,
                          exec |-> r.exec,
                          order |-> r.order,
                          total |-> [n \in MigNames |-> migRun.total[n] + r.exec[n]],
                          applied_first |-> IF migRun.n = 0
                                            THEN get_applied_migrations(r.table)
                                            ELSE migRun.applied_first,
                          body_failed |-> IF failure.at \in {"body", "body_partial"}
                                          THEN failure.k ELSE 0]
    /\ UNCHANGED <<migDir, migProc>>
    /\ MigOnly

MigNext == Initialize

\* Processes that start at the same time, each with a handle of its own on
\* the database: initialize() statement by statement.  migProc[p] is [pc,
\* applied, i, ok, exec]: where the run is ("start", "applied" before it
\* reads the applied versions, "loop", "record" between the body of a
\* migration and its INSERT, "done" when it returned), the set it read,
\* the turn of its loop, whether it returned Ok, the bodies it executed.

Migrations == discover_migrations(migDir)

\* setup_migration_system (CREATE TABLE IF NOT EXISTS) and
\* discover_migrations
PSetup(p) ==
    /\ migProc[p].pc = "start"
    /\ migProc' = [migProc EXCEPT ![p].pc = "applied"]
    /\ UNCHANGED <<migDir, migTable, migSchema, migRun>>
    /\ MigOnly

\* let applied = self.get_applied_migrations()?;
PReadApplied(p) ==
    /\ migProc[p].pc = "applied"
    /\ migProc' = [migProc EXCEPT ![p].pc = "loop",
                                   ![p].applied = get_applied_migrations(migTable)]
    /\ UNCHANGED <<migDir, migTable, migSchema, migRun>>
    /\ MigOnly

\* A turn of the loop for a version of the set read: nothing is done.
PSkip(p) ==
    /\ migProc[p].pc = "loop"
    /\ migProc[p].i <= Len(Migrations)
    /\ Migrations[migProc[p].i].version \in migProc[p].applied
    /\ migProc' = [migProc EXCEPT ![p].i = @ + 1]
    /\ UNCHANGED <<migDir, migTable, migSchema, migRun>>
    /\ MigOnly

\* apply_migration: conn.execute_batch(sql_content).  On a database that
\* another run has brought past this migration the body succeeds again or
\* fails, as its SQL has it.
PBody(p) ==
    /\ migProc[p].pc = "loop"
    /\ migProc[p].i <= Len(Migrations)
    /\ Migrations[migProc[p].i].version \notin migProc[p].applied
    /\ \E again_ok \in BOOLEAN :
         IF migSchema[Migrations[migProc[p].i].name] = "done" /\ ~again_ok
         THEN /\ migProc' = [migProc EXCEPT
                               ![p].pc = "done", ![p].ok = FALSE,
                               ![p].exec[Migrations[migProc[p].i].name] = @ + 1]
              /\ UNCHANGED migSchema
         ELSE /\ migProc' = [migProc EXCEPT
                               ![p].pc = "record",
                               ![p].exec[Migrations[migProc[p].i].name] = @ + 1]
              /\ migSchema' = [migSchema EXCEPT ![Migrations[migProc[p].i].name] = "done"]
    /\ UNCHANGED <<migDir, migTable, migRun>>
    /\ MigOnly

\* apply_migration: the INSERT into migrations, which fails when the
\* version is in the table.
PRecord(p) ==
    /\ migProc[p].pc = "record"
    /\ IF \E r \in migTable : r.version = Migrations[migProc[p].i].version
       THEN /\ migProc' = [migProc EXCEPT ![p].pc = "done", ![p].ok = FALSE]
            /\ UNCHANGED migTable
       ELSE /\ migProc' = [migProc EXCEPT ![p].pc = "loop", ![p].i = @ + 1]
            /\ migTable' = migTable \cup {[version |-> Migrations[migProc[p].i].version,
                                            name |-> Migrations[migProc[p].i].name]}
    /\ UNCHANGED <<migDir, migSchema, migRun>>
    /\ MigOnly

\* The loop is over: run_migrations and initialize return Ok.
PFinish(p) ==
    /\ migProc[p].pc = "loop"
    /\ migProc[p].i > Len(Migrations)
    /\ migProc' = [migProc EXCEPT ![p].pc = "done"]
    /\ UNCHANGED <<migDir, migTable, migSchema, migRun>>
    /\ MigOnly

PNext ==
    \E p \in Procs :
      \/ PSetup(p)
      \/ PReadApplied(p)
      \/ PSkip(p)
      \/ PBody(p)
      \/ PRecord(p)
      \/ PFinish(p)

---------------------------------------------------------------------------
(* filesystem.rs, hooks.rs, plugins: the file backend and its write hooks.  *)
(* A hook of the registry is "logger" (SimpleLoggerHook) or "sync"          *)
(* (DuckDbSyncHook).                                                        *)

FsDateSet == 1..FsDates

\* What one hook meets when it runs: fail is 0 for no failure; the logger
\* fails (1) when write_log.txt cannot be opened or written, the sync hook
\* where its save_entry does (FailPoints), with the HashMap handing out its
\* keys in the order keys.
HookChoices(kind, entry) ==
    IF kind = "logger" THEN {[fail |-> f, keys |-> <<>>] : f \in {0, 1}}
    ELSE {[fail |-> f, keys |-> k] :
            f \in FailPoints(entry), k \in KeyOrders(DOMAIN entry.bullets)}

\* SimpleLoggerHook::on_entry_written on [log, sync]
logger_on_entry_written(world, entry, choice) ==
    IF choice.fail # 0 THEN [world |-> world, ok |-> FALSE, refreshed |-> FALSE]
    ELSE [world |-> [world EXCEPT !.log = @ + 1], ok |-> TRUE, refreshed |-> FALSE]

\* A sync hook that refreshes the metadata whether or not its save succeeded.
sync_on_entry_written_refreshes(world, entry, choice) ==
    LET Synced(r) ==
            [world |-> [world EXCEPT !.sync = r.tbl], ok |-> r.ok, refreshed |-> TRUE]
    IN Synced(save_entry(world.sync, entry, choice.keys, choice.fail))

\* DuckDbSyncHook::on_entry_written on [log, sync]: save_entry, then
\* refresh_metadata (a placeholder that returns Ok).
sync_on_entry_written(world, entry, choice) ==
    LET Synced(r) ==
            [world |-> [world EXCEPT !.sync = r.tbl], ok |-> r.ok, refreshed |-> r.ok]
    IN Synced(save_entry(world.sync, entry, choice.keys, choice.fail))

on_entry_written(kind, world, entry, choice) ==
    IF kind = "logger" THEN logger_on_entry_written(world, entry, choice)
    ELSE sync_on_entry_written(world, entry, choice)

\* The loop of execute_write_hooks from hook i on: a failing hook is reported
\* on stderr and the loop goes on.  calls lists the hooks invoked, in order.
RECURSIVE HooksFrom(_, _, _, _, _, _)
HooksFrom(hooks, world, calls, entry, choices, i) ==
    IF i > Len(hooks) THEN [world |-> world, calls |-> calls, ok |-> TRUE]
    ELSE LET Rest(r) ==
                 HooksFrom(hooks, r.world,
                           Append(calls, [hook |-> i, ok |-> r.ok, refreshed |-> r.refreshed]),
                           entry, choices, i + 1)
         IN Rest(on_entry_written(hooks[i], world, entry, choices[i]))

\* The same loop leaving at the first failing hook.
RECURSIVE HooksUntilFailure(_, _, _, _, _, _)
HooksUntilFailure(hooks, world, calls, entry, choices, i) ==
    IF i > Len(hooks) THEN [world |-> world, calls |-> calls, ok |-> TRUE]
    ELSE LET Called(r) == Append(calls, [hook |-> i, ok |-> r.ok, refreshed |-> r.refreshed])
             Rest(r) ==
                 IF r.ok
                 THEN HooksUntilFailure(hooks, r.world, Called(r), entry, choices, i + 1)
                 ELSE [world |-> r.world, calls |-> Called(r), ok |-> FALSE]
         IN Rest(on_entry_written(hooks[i], world, entry, choices[i]))

execute_write_hooks_stops(hooks, world, entry, choices) ==
    HooksUntilFailure(hooks, world, <<>>, entry, choices, 1)

\* HookRegistry::execute_write_hooks
execute_write_hooks(hooks, world, entry, choices) ==
    HooksFrom(hooks, world, <<>>, entry, choices, 1)

\* FileSystemRepository::load
fs_load(files, date) ==
    IF files[date] = None THEN None ELSE Some(parse(date, files[date][1]))

\* FileSystemRepository::list_dates over the days start..end
RECURSIVE fs_list_dates(_, _, _)
fs_list_dates(files, start, end) ==
    IF start > end THEN <<>>
    ELSE (IF files[start] # None THEN <<start>> ELSE <<>>)
             \o fs_list_dates(files, start + 1, end)

\* The events of a save in the order they happen: the fs::write that returned
\* Ok (hook 0) and the hooks invoked.
WriteEvent == [ev |-> "write", hook |-> 0]

HookEvents(calls) == [i \in 1..Len(calls) |-> [ev |-> "hook", hook |-> calls[i].hook]]

\* A save that hands the entry to the hooks before it writes the file.
fs_save_hooks_first(hooks, st, entry, fail, choices) ==
    LET world == [log |-> st.log, sync |-> st.sync]
        Written(h) ==
            [files |-> [st.files EXCEPT ![entry.date] = Some(serialize(entry))],
             world |-> h.world, wrote |-> TRUE, calls |-> h.calls, ok |-> h.ok,
             trace |-> HookEvents(h.calls) \o <<WriteEvent>>]
    IN IF fail \in {"mkdir", "create"}
       THEN [files |-> st.files, world |-> world, wrote |-> FALSE, calls |-> <<>>,
             ok |-> FALSE, trace |-> <<>>]
       ELSE IF fail = "write"
       THEN [files |-> [st.files EXCEPT ![entry.date] = Some(<<>>)], world |-> world,
             wrote |-> FALSE, calls |-> <<>>, ok |-> FALSE, trace |-> <<>>]
       ELSE Written(execute_write_hooks(hooks, world, entry, choices))

\* FileSystemRepository::save on [files, log, sync].  fail says where the
\* file system fails: "mkdir" (a create_dir_all), "create" (fs::write cannot
\* open the file), "write" (fs::write fails after it truncated the file), or
\* nowhere.  wrote tells whether fs::write returned Ok, trace lists the
\* events of the call in order.
fs_save(hooks, st, entry, fail, choices) ==
    LET world == [log |-> st.log, sync |-> st.sync]
        Written(h) ==
            [files |-> [st.files EXCEPT ![entry.date] = Some(serialize(entry))],
             world |-> h.world, wrote |-> TRUE, calls |-> h.calls, ok |-> h.ok,
             trace |-> <<WriteEvent>> \o HookEvents(h.calls)]
    IN IF fail \in {"mkdir", "create"}
       THEN [files |-> st.files, world |-> world, wrote |-> FALSE, calls |-> <<>>,
             ok |-> FALSE, trace |-> <<>>]
       ELSE IF fail = "write"
       THEN [files |-> [st.files EXCEPT ![entry.date] = Some(<<>>)], world |-> world,
             wrote |-> FALSE, calls |-> <<>>, ok |-> FALSE, trace |-> <<>>]
       ELSE Written(execute_write_hooks(hooks, world, entry, choices))

\* The entries the file backend is asked to save.
FsEntries(date) ==
    {EntryOf(date, bs) : bs \in {<<>>, <<Bullet_new(<<"x">>, "Task")>>}}

\* What the hooks of a registry meet, one choice per hook, from hook i on.
RECURSIVE ChoicesFrom(_, _, _)
ChoicesFrom(hooks, entry, i) ==
    IF i > Len(hooks) THEN {<<>>}
    ELSE {<<c>> \o rest : c \in HookChoices(hooks[i], entry),
                          rest \in ChoicesFrom(hooks, entry, i + 1)}

\* Where FileSystemRepository::save may fail and, when it gets to its hooks,
\* what they meet.
FsChoices(hooks, entry) ==
    {[fail |-> f, choices |-> <<>>] : f \in {"mkdir", "create", "write"}}
      \cup {[fail |-> "none", choices |-> c] : c \in ChoicesFrom(hooks, entry, 1)}

\* The registries built at startup.
HookRegistries == SeqsUpTo({"logger", "sync"}, FsMaxHooks)

NoSave ==
    [n |-> 0, date |-> 0, entry |-> None, ok |-> TRUE, wrote |-> FALSE, calls |-> <<>>,
     trace |-> <<>>]

FsFresh ==
    /\ fsFiles = [d \in FsDateSet |-> None]
    /\ writeLog = 0
    /\ syncTbl = <<>>
    /\ fsOp = NoSave

FsInit ==
    /\ hookReg \in HookRegistries
    /\ FsFresh

\* The file backend at rest, as the other specifications hold it.
FsIdle ==
    /\ hookReg = <<>>
    /\ FsFresh

FsOnly == UNCHANGED <<codecVars, storeVars, migVars, jVars, bVars, kVars, blt>>

\* fsOp: the number of save calls (n), and of the last one its date, its
\* entry, whether it returned Ok (ok), whether its fs::write returned Ok
\* (wrote), the hooks it invoked, in order (calls), and its events (trace).
FsSave ==
    /\ fsOp.n < FsMaxSaves
    /\ \E d \in FsDateSet :
        \E entry \in FsEntries(d) :
          \E c \in FsChoices(hookReg, entry) :
            \E r \in {fs_save(hookReg,
                               [files |-> fsFiles, log |-> writeLog, sync |-> syncTbl],
                               entry, c.fail, c.choices)} :
               /\ fsFiles' = r.files
               /\ writeLog' = r.world.log
               /\ syncTbl' = r.world.sync
               /\ fsOp' = [n |-> fsOp.n + 1, date |-> d, entry |-> Some(entry),
                           ok |-> r.ok, wrote |-> r.wrote, calls |-> r.calls,
                           trace |-> r.trace]
    /\ UNCHANGED hookReg
    /\ FsOnly

FsNext == FsSave

---------------------------------------------------------------------------
(* entities.rs: Journal, the cache in front of a repository.  The           *)
(* repository is the database backend (as JournalApp builds it) or the file *)
(* backend with an empty hook registry (FileSystemRepository::new).         *)

JDateSet == 1..JDates

\* Where a repository save may fail, and the HashMap key order it meets.  For
\* the file backend the failures are 0 (none), 1 (a create_dir_all), 2
\* (fs::write cannot open the file), 3 (fs::write fails after truncating it).
RepoChoices(kind, entry) ==
    IF kind = "db"
    THEN {[fail |-> f, keys |-> k] :
            f \in FailPoints(entry), k \in KeyOrders(DOMAIN entry.bullets)}
    ELSE {[fail |-> f, keys |-> <<>>] : f \in 0..3}

FsFailure(n) ==
    CASE n = 0 -> "none" [] n = 1 -> "mkdir" [] n = 2 -> "create" [] n = 3 -> "write"

\* repository.load(date) when the backend does not fail: Option<Entry>
repo_load(kind, store, date) ==
    IF kind = "db" THEN load_entry(store.tbl, date) ELSE fs_load(store.files, date)

\* list_dates of the backend over the days start..end
repo_list_dates(kind, store, start, end) ==
    IF kind = "db" THEN list_dates(store.tbl, start, end)
    ELSE fs_list_dates(store.files, start, end)

\* repository.save(entry) on store = [tbl, files]
repo_save(kind, store, entry, choice) ==
    LET Db(r) == [store |-> [store EXCEPT !.tbl = r.tbl], ok |-> r.ok]
        File(r) == [store |-> [store EXCEPT !.files = r.files], ok |-> r.ok]
    IN IF kind = "db"
       THEN Db(save_entry(store.tbl, entry, choice.keys, choice.fail))
       ELSE File(fs_save(<<>>, [files |-> store.files, log |-> 0, sync |-> <<>>],
                         entry, FsFailure(choice.fail), <<>>))

\* Variants of the cache operations that depart from entities.rs, each in
\* one respect; the properties of the cache are checked to tell them apart.

\* caches an empty entry where Journal::get_entry leaves the date unloaded
get_entry_caches_absence(kind, cache, store, date, load_fails) ==
    IF cache[date] = None
    THEN IF load_fails
         THEN [cache |-> cache, ok |-> FALSE, res |-> None, called |-> TRUE]
         ELSE LET loaded == repo_load(kind, store, date)
                  filled == [cache EXCEPT ![date] =
                                IF loaded # None THEN loaded ELSE Some(Entry_new(date))]
              IN [cache |-> filled, ok |-> TRUE, res |-> loaded, called |-> TRUE]
    ELSE [cache |-> cache, ok |-> TRUE, res |-> cache[date], called |-> FALSE]

\* asks the backend on every call and refreshes the cache from it
get_entry_refreshes(kind, cache, store, date, load_fails) ==
    IF load_fails
    THEN [cache |-> cache, ok |-> FALSE, res |-> None, called |-> TRUE]
    ELSE LET loaded == repo_load(kind, store, date)
             filled == IF loaded # None THEN [cache EXCEPT ![date] = loaded] ELSE cache
         IN [cache |-> filled, ok |-> TRUE, res |-> filled[date], called |-> TRUE]

\* hands out a new empty entry without putting it into the cache
get_entry_mut_uncached(kind, cache, store, date, load_fails) ==
    IF cache[date] = None
    THEN IF load_fails
         THEN [cache |-> cache, ok |-> FALSE, res |-> None, called |-> TRUE,
               synthesized |-> FALSE]
         ELSE LET loaded == repo_load(kind, store, date)
                  filled == IF loaded # None THEN [cache EXCEPT ![date] = loaded]
                            ELSE cache
              IN [cache |-> filled, ok |-> TRUE,
                  res |-> IF loaded # None THEN loaded ELSE Some(Entry_new(date)),
                  called |-> TRUE, synthesized |-> loaded = None]
    ELSE [cache |-> cache, ok |-> TRUE, res |-> cache[date], called |-> FALSE,
          synthesized |-> FALSE]

\* reports a failed load as absence
get_entry_swallows_error(kind, cache, store, date, load_fails) ==
    IF cache[date] = None
    THEN IF load_fails
         THEN [cache |-> cache, ok |-> TRUE, res |-> None, called |-> TRUE]
         ELSE LET loaded == repo_load(kind, store, date)
                  filled == IF loaded # None THEN [cache EXCEPT ![date] = loaded]
                            ELSE cache
              IN [cache |-> filled, ok |-> TRUE, res |-> filled[date], called |-> TRUE]
    ELSE [cache |-> cache, ok |-> TRUE, res |-> cache[date], called |-> FALSE]

\* A save that writes every entry of the cache to the backend, not only the
\* one of its date.
RECURSIVE FlushFrom(_, _, _, _)
FlushFrom(kind, cache, store, d) ==
    IF d > Len(cache) THEN store
    ELSE IF cache[d] = None THEN FlushFrom(kind, cache, store, d + 1)
    ELSE FlushFrom(kind, cache,
                   repo_save(kind, store, cache[d][1],
                             [fail |-> 0,
                              keys |-> CHOOSE k \in KeyOrders(DOMAIN cache[d][1].bullets) :
                                          TRUE]).store,
                   d + 1)

journal_save_entry_flushes(kind, cache, store, date, choice) ==
    [store |-> FlushFrom(kind, cache, store, 1), ok |-> TRUE, called |-> TRUE,
     arg |-> cache[date]]

\* saves an empty entry for a date that is not in the cache
journal_save_entry_always(kind, cache, store, date, choice) ==
    LET entry == IF cache[date] # None THEN cache[date][1] ELSE Entry_new(date)
        Saved(r) == [store |-> r.store, ok |-> r.ok, called |-> TRUE, arg |-> Some(entry)]
    IN Saved(repo_save(kind, store, entry, choice))

\* Journal::get_entry on the cache: the cache it leaves, the Result it
\* returns (ok, res) and whether it called the backend.  load_fails tells
\* whether a call of repository.load returns Err.
get_entry(kind, cache, store, date, load_fails) ==
    IF cache[date] = None
    THEN IF load_fails
         THEN [cache |-> cache, ok |-> FALSE, res |-> None, called |-> TRUE]
         ELSE LET loaded == repo_load(kind, store, date)
                  filled == IF loaded # None THEN [cache EXCEPT ![date] = loaded]
                            ELSE cache
              IN [cache |-> filled, ok |-> TRUE, res |-> filled[date], called |-> TRUE]
    ELSE [cache |-> cache, ok |-> TRUE, res |-> cache[date], called |-> FALSE]

\* Journal::get_entry_mut; synthesized tells whether Entry::new made the entry.
get_entry_mut(kind, cache, store, date, load_fails) ==
    IF cache[date] = None
    THEN IF load_fails
         THEN [cache |-> cache, ok |-> FALSE, res |-> None, called |-> TRUE,
               synthesized |-> FALSE]
         ELSE LET loaded == repo_load(kind, store, date)
                  entry == IF loaded # None THEN loaded[1] ELSE Entry_new(date)
                  filled == [cache EXCEPT ![date] = Some(entry)]
              IN [cache |-> filled, ok |-> TRUE, res |-> filled[date], called |-> TRUE,
                  synthesized |-> loaded = None]
    ELSE [cache |-> cache, ok |-> TRUE, res |-> cache[date], called |-> FALSE,
          synthesized |-> FALSE]

\* Journal::save_entry; arg is the entry handed to repository.save.
journal_save_entry(kind, cache, store, date, choice) ==
    IF cache[date] # None
    THEN LET Saved(r) ==
                 [store |-> r.store, ok |-> r.ok, called |-> TRUE, arg |-> cache[date]]
         IN Saved(repo_save(kind, store, cache[date][1], choice))
    ELSE [store |-> store, ok |-> TRUE, called |-> FALSE, arg |-> None]

\* The bullet a caller adds to the entry get_entry_mut lent it, and the
\* entries another handle on the backend writes.
JBullets == {Bullet_new(<<"x">>, "Task")}

JEntries(date) == {EntryOf(date, bs) : bs \in SeqsUpTo(JBullets, JMaxBullets)}

\* What the user may leave in the editor: the editing text of some entry,
\* read back by parse as edit_entry_for_date does.
JEdited ==
    [d \in JDateSet |-> {parse(d, serialize_for_editing(e)) : e \in JEntries(d)}]

JStore == [tbl |-> jTbl, files |-> jFiles]

\* jOp: op, date, ok (the call returned Ok), res (the Option<Entry> a get
\* returned), cached (the date was in the cache when the call began), called
\* (the call reached the backend), arg (the entry handed to repository.save),
\* after (for a get: what went before, see trail) and trail: "synthesized" when this
\* call was a get_entry_mut that made a new empty entry, "absent" when it was
\* a get_entry that returned absence, "absent_written" when it wrote an
\* entry to the backend behind the journal's back right after such a
\* get_entry for the same date.
JNoCall ==
    [op |-> "none", date |-> 0, ok |-> TRUE, res |-> None, cached |-> FALSE,
     called |-> FALSE, arg |-> None, after |-> "", trail |-> ""]

JFresh ==
    /\ jCache = [d \in JDateSet |-> None]
    /\ jTbl = <<>>
    /\ jFiles = [d \in JDateSet |-> None]
    /\ jOp = JNoCall

JInit ==
    /\ jKind \in {"db", "file"}
    /\ JFresh

\* The journal at rest, as the other specifications hold it.
JIdle ==
    /\ jKind = "db"
    /\ JFresh

JOnly == UNCHANGED <<codecVars, storeVars, migVars, fsVars, bVars, kVars, blt>>

\* What went before a call for date d.
After(d) == IF jOp.date = d THEN jOp.trail ELSE ""

JGetEntry ==
    \E d \in JDateSet, load_fails \in BOOLEAN :
      \E r \in {get_entry(jKind, jCache, JStore, d, load_fails)} :
      /\ jCache' = r.cache
      /\ jOp' = [op |-> "get_entry", date |-> d, ok |-> r.ok, res |-> r.res,
                 cached |-> jCache[d] # None, called |-> r.called, arg |-> None,
                 after |-> After(d),
                 trail |-> IF r.ok /\ r.res = None THEN "absent" ELSE ""]
      /\ UNCHANGED <<jKind, jTbl, jFiles>>
      /\ JOnly

JGetEntryMut ==
    \E d \in JDateSet, load_fails \in BOOLEAN :
      \E r \in {get_entry_mut(jKind, jCache, JStore, d, load_fails)} :
      /\ jCache' = r.cache
      /\ jOp' = [op |-> "get_entry_mut", date |-> d, ok |-> r.ok, res |-> r.res,
                 cached |-> jCache[d] # None, called |-> r.called, arg |-> None,
                 after |-> After(d),
                 trail |-> IF r.synthesized THEN "synthesized" ELSE ""]
      /\ UNCHANGED <<jKind, jTbl, jFiles>>
      /\ JOnly

\* The same edit on an entry that the cache shares with the backend: the
\* bullet shows in the backend at once.
JMutateShared ==
    \E d \in JDateSet, b \in JBullets :
      /\ jOp.op \in {"get_entry_mut", "mutate"}
      /\ jOp.ok
      /\ jOp.date = d
      /\ total_bullets(jCache[d][1]) < JMaxBullets
      /\ \E choice \in {c \in RepoChoices(jKind, add_bullet(jCache[d][1], b)) : c.fail = 0} :
           \E r \in {repo_save(jKind, JStore, add_bullet(jCache[d][1], b), choice)} :
             /\ jTbl' = r.store.tbl
             /\ jFiles' = r.store.files
      /\ jCache' = [jCache EXCEPT ![d] = Some(add_bullet(jCache[d][1], b))]
      /\ jOp' = [op |-> "mutate", date |-> d, ok |-> TRUE, res |-> None,
                 cached |-> TRUE, called |-> FALSE, arg |-> None,
                 after |-> "", trail |-> ""]
      /\ UNCHANGED jKind
      /\ JOnly

\* The caller edits the entry it holds from get_entry_mut: one add_bullet.
JMutate ==
    \E d \in JDateSet, b \in JBullets :
      /\ jOp.op \in {"get_entry_mut", "mutate"}
      /\ jOp.ok
      /\ jOp.date = d
      /\ total_bullets(jCache[d][1]) < JMaxBullets
      /\ jCache' = [jCache EXCEPT ![d] = Some(add_bullet(jCache[d][1], b))]
      /\ jOp' = [op |-> "mutate", date |-> d, ok |-> TRUE, res |-> None,
                 cached |-> TRUE, called |-> FALSE, arg |-> None,
                 after |-> "", trail |-> ""]
      /\ UNCHANGED <<jKind, jTbl, jFiles>>
      /\ JOnly

JSaveEntry ==
    \E d \in JDateSet :
      \E choice \in RepoChoices(jKind,
                                IF jCache[d] # None THEN jCache[d][1] ELSE Entry_new(d)) :
        \E r \in {journal_save_entry(jKind, jCache, JStore, d, choice)} :
        /\ jTbl' = r.store.tbl
        /\ jFiles' = r.store.files
        /\ jOp' = [op |-> "save_entry", date |-> d, ok |-> r.ok, res |-> None,
                   cached |-> jCache[d] # None, called |-> r.called, arg |-> r.arg,
                   after |-> "", trail |-> ""]
        /\ UNCHANGED <<jKind, jCache>>
        /\ JOnly

\* Another handle on the same backend (JournalApp.storage, another process)
\* saves an entry: a write behind the journal's back.
JOutOfBandSave ==
    \E d \in JDateSet :
      \E entry \in JEntries(d) :
        \E choice \in {c \in RepoChoices(jKind, entry) : c.fail = 0} :
          \E r \in {repo_save(jKind, JStore, entry, choice)} :
          /\ jTbl' = r.store.tbl
          /\ jFiles' = r.store.files
          /\ jOp' = [op |-> "out_of_band_save", date |-> d, ok |-> TRUE, res |-> None,
                     cached |-> jCache[d] # None, called |-> FALSE, arg |-> Some(entry),
                     after |-> "",
                     trail |-> IF After(d) = "absent" /\ ~is_empty(entry)
                               THEN "absent_written" ELSE ""]
          /\ UNCHANGED <<jKind, jCache>>
          /\ JOnly

\* Another handle deletes what the backend holds for a date.
JOutOfBandDelete ==
    \E d \in JDateSet :
      /\ jTbl' = IF jKind = "db" THEN delete_entry(jTbl, d, FALSE).tbl ELSE jTbl
      /\ jFiles' = IF jKind = "file" THEN [jFiles EXCEPT ![d] = None] ELSE jFiles
      /\ jOp' = [op |-> "out_of_band_delete", date |-> d, ok |-> TRUE, res |-> None,
                 cached |-> jCache[d] # None, called |-> FALSE, arg |-> None,
                 after |-> "", trail |-> ""]
      /\ UNCHANGED <<jKind, jCache>>
      /\ JOnly

\* JournalApp::edit_entry_for_date past the editor: the edited text is
\* parsed, saved through the app's own storage handle and, when that
\* succeeded, put into the journal's cache in place of what was there.
EditEntryForDate ==
    \E d \in JDateSet :
      \E updated_entry \in JEdited[d] :
        \E choice \in RepoChoices(jKind, updated_entry) :
          \E r \in {repo_save(jKind, JStore, updated_entry, choice)} :
          /\ jKind = "db"
          /\ jTbl' = r.store.tbl
          /\ jFiles' = r.store.files
          /\ jCache' = IF r.ok THEN [jCache EXCEPT ![d] = Some(updated_entry)] ELSE jCache
          /\ jOp' = [op |-> "edit_entry_for_date", date |-> d, ok |-> r.ok, res |-> None,
                     cached |-> jCache[d] # None, called |-> FALSE,
                     arg |-> Some(updated_entry), after |-> "", trail |-> ""]
          /\ UNCHANGED jKind
          /\ JOnly

JNext ==
    \/ JGetEntry
    \/ JGetEntryMut
    \/ JMutate
    \/ JSaveEntry
    \/ JOutOfBandSave
    \/ JOutOfBandDelete
    \/ EditEntryForDate

---------------------------------------------------------------------------
(* entities.rs: the range operations of Journal, over a span of dates.  The *)
(* journal variables are used with RangeDates dates.                        *)

RDateSet == 1..RangeDates

\* DateRange::days: start, start + 1, ..., end; no day when end < start.
days(start, end) == [i \in 1..(end - start + 1) |-> start + (i - 1)]

\* A loop that asks the repository for every day and leaves the cache alone.
RECURSIVE EntriesFromBackend(_, _, _, _, _, _, _)
EntriesFromBackend(kind, cache, store, ds, i, fail_at, entries) ==
    IF i > Len(ds) THEN [cache |-> cache, ok |-> TRUE, res |-> entries]
    ELSE IF ds[i] = fail_at THEN [cache |-> cache, ok |-> FALSE, res |-> <<>>]
    ELSE EntriesFromBackend(kind, cache, store, ds, i + 1, fail_at,
                            entries \o repo_load(kind, store, ds[i]))

\* The loop of get_entries_in_range from the i-th day on; fail_at is the day
\* at which repository.load returns Err, 0 for none.
RECURSIVE EntriesFrom(_, _, _, _, _, _, _)
EntriesFrom(kind, cache, store, ds, i, fail_at, entries) ==
    IF i > Len(ds) THEN [cache |-> cache, ok |-> TRUE, res |-> entries]
    ELSE LET Pushed(r) ==
                 IF ~r.ok THEN [cache |-> r.cache, ok |-> FALSE, res |-> <<>>]
                 ELSE EntriesFrom(kind, r.cache, store, ds, i + 1, fail_at,
                                  entries \o r.res)
         IN Pushed(get_entry(kind, cache, store, ds[i], ds[i] = fail_at))

get_entries_in_range_uncached(kind, cache, store, start, end, fail_at) ==
    EntriesFromBackend(kind, cache, store, days(start, end), 1, fail_at, <<>>)

\* Journal::get_entries_in_range
get_entries_in_range(kind, cache, store, start, end, fail_at) ==
    EntriesFrom(kind, cache, store, days(start, end), 1, fail_at, <<>>)

\* A listing that counts the dates of the cache in.
list_dates_in_range_cached(kind, cache, store, start, end) ==
    SelectSeq(days(start, end),
              LAMBDA d : cache[d] # None \/ repo_load(kind, store, d) # None)

\* Journal::list_dates_in_range
list_dates_in_range(kind, cache, store, start, end) ==
    repo_list_dates(kind, store, start, end)

\* The entries another handle writes to the backend.
REntries(date) ==
    {EntryOf(date, bs) : bs \in {<<>>, <<Bullet_new(<<"x">>, "Task")>>}}

\* jOp of a range call: op, start, end, ok, the Vec it returned (res) and the
\* day at which repository.load returns Err when it is called (fail_at, 0
\* for none).
RNoCall ==
    [op |-> "none", start |-> 0, end |-> 0, ok |-> TRUE, res |-> <<>>, fail_at |-> 0]

RInit ==
    /\ jKind \in {"db", "file"}
    /\ jCache = [d \in RDateSet |-> None]
    /\ jTbl = <<>>
    /\ jFiles = [d \in RDateSet |-> None]
    /\ jOp = RNoCall

\* Another handle on the backend, or an earlier session, saves an entry.
RBackendSave ==
    \E d \in RDateSet :
      \E entry \in REntries(d) :
        \E choice \in {c \in RepoChoices(jKind, entry) : c.fail = 0} :
          \E r \in {repo_save(jKind, JStore, entry, choice)} :
            /\ jTbl' = r.store.tbl
            /\ jFiles' = r.store.files
            /\ jOp' = [RNoCall EXCEPT !.op = "backend_save", !.start = d, !.end = d]
            /\ UNCHANGED <<jKind, jCache>>
            /\ JOnly

\* get_entry(d) by the caller.
RGetEntry ==
    \E d \in RDateSet, load_fails \in BOOLEAN :
      \E r \in {get_entry(jKind, jCache, JStore, d, load_fails)} :
        /\ jCache' = r.cache
        /\ jOp' = [op |-> "get_entry", start |-> d, end |-> d, ok |-> r.ok,
                   res |-> r.res, fail_at |-> IF load_fails THEN d ELSE 0]
        /\ UNCHANGED <<jKind, jTbl, jFiles>>
        /\ JOnly

\* get_entry_mut(d) by the caller, who adds no bullet and does not save.
RGetEntryMut ==
    \E d \in RDateSet, load_fails \in BOOLEAN :
      \E r \in {get_entry_mut(jKind, jCache, JStore, d, load_fails)} :
        /\ jCache' = r.cache
        /\ jOp' = [op |-> "get_entry_mut", start |-> d, end |-> d, ok |-> r.ok,
                   res |-> r.res, fail_at |-> IF load_fails THEN d ELSE 0]
        /\ UNCHANGED <<jKind, jTbl, jFiles>>
        /\ JOnly

\* save_entry(d) by the caller.
RSaveEntry ==
    \E d \in RDateSet :
      \E choice \in RepoChoices(jKind,
                                IF jCache[d] # None THEN jCache[d][1] ELSE Entry_new(d)) :
        \E r \in {journal_save_entry(jKind, jCache, JStore, d, choice)} :
          /\ jTbl' = r.store.tbl
          /\ jFiles' = r.store.files
          /\ jOp' = [op |-> "save_entry", start |-> d, end |-> d, ok |-> r.ok,
                     res |-> <<>>, fail_at |-> 0]
          /\ UNCHANGED <<jKind, jCache>>
          /\ JOnly

GetEntriesInRange ==
    \E start \in RDateSet, end \in RDateSet, fail_at \in {0} \cup RDateSet :
      \E r \in {get_entries_in_range(jKind, jCache, JStore, start, end, fail_at)} :
        /\ jCache' = r.cache
        /\ jOp' = [op |-> "get_entries_in_range", start |-> start, end |-> end,
                   ok |-> r.ok, res |-> r.res, fail_at |-> fail_at]
        /\ UNCHANGED <<jKind, jTbl, jFiles>>
        /\ JOnly

ListDatesInRange ==
    \E start \in RDateSet, end \in RDateSet :
      /\ jOp' = [op |-> "list_dates_in_range", start |-> start, end |-> end,
                 ok |-> TRUE,
                 res |-> list_dates_in_range(jKind, jCache, JStore, start, end),
                 fail_at |-> 0]
      /\ UNCHANGED <<jKind, jCache, jTbl, jFiles>>
      /\ JOnly

RNext ==
    \/ RBackendSave
    \/ RGetEntry
    \/ RGetEntryMut
    \/ RSaveEntry
    \/ GetEntriesInRange
    \/ ListDatesInRange

---------------------------------------------------------------------------
(* The two realizations of the storage backend side by side: the same calls *)
(* made on a DuckDbStorage and on a FileSystemRepository without hooks.     *)

BDateSet == 1..BackendDates

\* The entries saved to both: a new entry, a pending task, a completed task,
\* an event.
BEntries(date) ==
    {EntryOf(date, bs) :
        bs \in {<<>>,
                <<Bullet_new(<<"x">>, "Task")>>,
                <<Bullet_with_task_state(<<"y">>, "Task", "Completed")>>,
                <<Bullet_new(<<"z">>, "Event")>>}}

\* bOp: op, the date of a save or load, the entry saved, the range of a
\* list_dates, and what the database backend (db) and the file backend
\* (file) returned.
BNoCall ==
    [op |-> "none", date |-> 0, entry |-> None, start |-> 0, end |-> 0,
     db |-> None, file |-> None]

BInit ==
    /\ bTbl = <<>>
    /\ bFiles = [d \in BDateSet |-> None]
    /\ bOp = BNoCall

\* Both backends at rest, as the other specifications hold them.
BIdle == BInit

BOnly == UNCHANGED <<codecVars, storeVars, migVars, fsVars, jVars, kVars, blt>>

\* save_entry(entry) and save(entry), neither failing
BSave ==
    \E d \in BDateSet :
      \E entry \in BEntries(d) :
       \E keys \in KeyOrders(DOMAIN entry.bullets) :
        \E r \in {save_entry(bTbl, entry, keys, 0)},
           f \in {fs_save(<<>>, [files |-> bFiles, log |-> 0, sync |-> <<>>],
                          entry, "none", <<>>)} :
          /\ bTbl' = r.tbl
          /\ bFiles' = f.files
          /\ bOp' = [op |-> "save", date |-> d, entry |-> Some(entry),
                     start |-> 0, end |-> 0, db |-> r.ok, file |-> f.ok]
          /\ BOnly

\* load_entry(date) and load(date)
BLoad ==
    \E d \in BDateSet :
      /\ bOp' = [op |-> "load", date |-> d, entry |-> None, start |-> 0, end |-> 0,
                 db |-> load_entry(bTbl, d), file |-> fs_load(bFiles, d)]
      /\ UNCHANGED <<bTbl, bFiles>>
      /\ BOnly

\* list_dates(range) on both
BListDates ==
    \E start \in BDateSet, end \in BDateSet :
      /\ start <= end
      /\ bOp' = [op |-> "list_dates", date |-> 0, entry |-> None,
                 start |-> start, end |-> end,
                 db |-> list_dates(bTbl, start, end),
                 file |-> fs_list_dates(bFiles, start, end)]
      /\ UNCHANGED <<bTbl, bFiles>>
      /\ BOnly

BNext ==
    \/ BSave
    \/ BLoad
    \/ BListDates

---------------------------------------------------------------------------
(* duckdb_storage.rs: the queries of DuckDbStorage over spans of dates, on  *)
(* one handle used by one thread.  The backend variables are used with      *)
(* QueryDates dates; the file backend is not touched.                       *)

QDateSet == 1..QueryDates

\* The rows of the days start..end, "WHERE date BETWEEN ? AND ? ORDER BY
\* date, id".
RECURSIVE SelectBetween(_, _, _)
SelectBetween(t, start, end) ==
    IF start > end THEN <<>>
    ELSE SelectByDate(t, FormatDate(start)) \o SelectBetween(t, start + 1, end)

\* A reading of the span that leaves its last day out.
load_entries_open_end(t, start, end) ==
    LET rows == SelectBetween(t, start, end - 1)
        keys == {rows[i].date : i \in {k \in 1..Len(rows) : BulletTypeOfStr(rows[k].type) # None}}
        OfKey(d) == LoadRows(Entry_new(ParseDate(d)), SelectByDate(rows, d), 1)
    IN [i \in 1..Cardinality(keys) |->
          OfKey(CHOOSE d \in keys : Cardinality({e \in keys : e.ymd < d.ymd}) = i - 1)]

\* DuckDbStorage::load_entries when no statement fails: the rows are put
\* into entries_map under their dates (a row of an unknown type is skipped
\* before its date gets a key), and the values are sorted by date.
load_entries(t, start, end) ==
    LET rows == SelectBetween(t, start, end)
        keys == {rows[i].date : i \in {k \in 1..Len(rows) : BulletTypeOfStr(rows[k].type) # None}}
        OfKey(d) == LoadRows(Entry_new(ParseDate(d)), SelectByDate(rows, d), 1)
    IN [i \in 1..Cardinality(keys) |->
          OfKey(CHOOSE d \in keys : Cardinality({e \in keys : e.ymd < d.ymd}) = i - 1)]

\* A count of the rows of the table.
count_rows(t) == Len(t)

\* DuckDbStorage::count_entries: "SELECT COUNT(DISTINCT date) FROM bullets"
count_entries(t) == Cardinality({t[i].date : i \in 1..Len(t)})

\* "SELECT DISTINCT date FROM bullets WHERE type = ? AND date BETWEEN ? AND ?
\* ORDER BY date"
RECURSIVE DatesOfType(_, _, _, _)
DatesOfType(t, type_str, start, end) ==
    IF start > end THEN <<>>
    ELSE (IF \E i \in 1..Len(t) : t[i].date = FormatDate(start) /\ t[i].type = type_str
          THEN <<FormatDate(start)>> ELSE <<>>)
             \o DatesOfType(t, type_str, start + 1, end)

\* self.conn.lock().unwrap() by a thread; held tells whether a guard of
\* self.conn is alive on that thread.  A std::sync::Mutex locked twice by
\* one thread does not return from the second lock: it blocks for ever or
\* panics.
lock_conn(held) == IF held THEN {"deadlock", "panic"} ELSE {"locked"}

\* self.load_entry(date) called where a guard of self.conn may be alive: its
\* first line locks self.conn.
load_entry_under(t, date, held) ==
    {IF o = "locked" THEN [outcome |-> "returned", res |-> load_entry(t, date)]
     ELSE [outcome |-> o, res |-> None] : o \in lock_conn(held)}

\* The loop of find_entries_by_type and of search_entries over the dates
\* their SELECT found, from the i-th on.
RECURSIVE LoadFound(_, _, _, _, _)
LoadFound(t, ds, i, held, entries) ==
    IF i > Len(ds) THEN {[outcome |-> "returned", res |-> entries]}
    ELSE UNION {IF r.outcome = "returned"
                THEN LoadFound(t, ds, i + 1, held, entries \o r.res)
                ELSE {[outcome |-> r.outcome, res |-> <<>>]} :
                   r \in load_entry_under(t, ParseDate(ds[i]), held)}

\* DuckDbStorage::find_entries_by_type.  The function holds the guard of
\* self.conn from its first line to its end and calls self.load_entry for
\* each date it found, on the same thread.  The set of the outcomes the
\* call may have.
find_entries_by_type(t, type_str, start, end) ==
    LoadFound(t, DatesOfType(t, type_str, start, end), 1, TRUE, <<>>)

\* "SELECT DISTINCT date FROM bullets WHERE content MATCH ? ORDER BY date
\* DESC" over the days 1..last: a content matches a query word it holds.
RECURSIVE DatesMatching(_, _, _)
DatesMatching(t, query, last) ==
    IF last < 1 THEN <<>>
    ELSE (IF \E i \in 1..Len(t) :
                /\ t[i].date = FormatDate(last)
                /\ \E k \in 1..Len(t[i].content) : t[i].content[k] = query
          THEN <<FormatDate(last)>> ELSE <<>>)
             \o DatesMatching(t, query, last - 1)

\* DuckDbStorage::search_entries: like find_entries_by_type it keeps the
\* guard of self.conn while it calls self.load_entry.  prepare_fails tells
\* whether the database refuses the statement; the call then returns Err.
search_entries(t, query, last, prepare_fails) ==
    IF prepare_fails THEN {[outcome |-> "returned", res |-> <<>>]}
    ELSE LoadFound(t, DatesMatching(t, query, last), 1, TRUE, <<>>)

\* The entries a caller saves: without bullets, with a task, an event, a
\* priority, a task and an event.
QEntries(date) ==
    {EntryOf(date, bs) :
        bs \in {<<>>, <<Bullet_new(<<"x">>, "Task")>>, <<Bullet_new(<<"z">>, "Event")>>,
                <<Bullet_new(<<"p">>, "Priority")>>,
                <<Bullet_new(<<"x">>, "Task"), Bullet_new(<<"z">>, "Event")>>}}

\* bOp of a query: op, whether the call returned, blocked for ever or
\* panicked (outcome), the span (start, end), the type asked for (type) and
\* what the call returned (res).
QNoCall ==
    [op |-> "none", outcome |-> "returned", start |-> 0, end |-> 0, type |-> "",
     res |-> <<>>]

QInit ==
    /\ bTbl = <<>>
    /\ bFiles = [d \in BDateSet |-> None]
    /\ bOp = QNoCall

\* The thread that owns the handle makes its next call when the last one
\* returned.
QReturned == bOp.outcome = "returned"

QSaveEntry ==
    /\ QReturned
    /\ \E d \in QDateSet :
         \E entry \in QEntries(d) :
           \E keys \in KeyOrders(DOMAIN entry.bullets), fail \in FailPoints(entry) :
             /\ bTbl' = save_entry(bTbl, entry, keys, fail).tbl
             /\ bOp' = [QNoCall EXCEPT !.op = "save_entry", !.start = d, !.end = d]
    /\ UNCHANGED bFiles
    /\ BOnly

QDeleteEntry ==
    /\ QReturned
    /\ \E d \in QDateSet :
         /\ bTbl' = delete_entry(bTbl, d, FALSE).tbl
         /\ bOp' = [QNoCall EXCEPT !.op = "delete_entry", !.start = d, !.end = d]
    /\ UNCHANGED bFiles
    /\ BOnly

QLoadEntries ==
    /\ QReturned
    /\ \E start \in QDateSet, end \in QDateSet :
         bOp' = [QNoCall EXCEPT !.op = "load_entries", !.start = start, !.end = end,
                                !.res = load_entries(bTbl, start, end)]
    /\ UNCHANGED <<bTbl, bFiles>>
    /\ BOnly

QListDates ==
    /\ QReturned
    /\ \E start \in QDateSet, end \in QDateSet :
         bOp' = [QNoCall EXCEPT !.op = "list_dates", !.start = start, !.end = end,
                                !.res = list_dates(bTbl, start, end)]
    /\ UNCHANGED <<bTbl, bFiles>>
    /\ BOnly

QCountEntries ==
    /\ QReturned
    /\ bOp' = [QNoCall EXCEPT !.op = "count_entries", !.res = count_entries(bTbl)]
    /\ UNCHANGED <<bTbl, bFiles>>
    /\ BOnly

\* find_entries_with_tasks, find_entries_with_events,
\* find_entries_with_priorities
QFindEntries ==
    /\ QReturned
    /\ \E type_str \in {"task", "event", "priority"}, start \in QDateSet, end \in QDateSet :
         \E r \in find_entries_by_type(bTbl, type_str, start, end) :
           bOp' = [op |-> "find_entries", outcome |-> r.outcome, start |-> start,
                   end |-> end, type |-> type_str, res |-> r.res]
    /\ UNCHANGED <<bTbl, bFiles>>
    /\ BOnly

QSearchEntries ==
    /\ QReturned
    /\ \E query \in {"x", "z"}, prepare_fails \in BOOLEAN :
         \E r \in search_entries(bTbl, query, QueryDates, prepare_fails) :
           bOp' = [op |-> "search_entries", outcome |-> r.outcome, start |-> 0,
                   end |-> 0, type |-> query, res |-> r.res]
    /\ UNCHANGED <<bTbl, bFiles>>
    /\ BOnly

QNext ==
    \/ QSaveEntry
    \/ QDeleteEntry
    \/ QLoadEntries
    \/ QListDates
    \/ QCountEntries
    \/ QFindEntries
    \/ QSearchEntries

---------------------------------------------------------------------------
(* duckdb_storage.rs: threads at work on storage handles of one database.   *)
(* A call locks the conn of its handle on its first line and holds the      *)
(* guard until it returns; its statements are executed one by one.          *)

Threads == {"t1", "t2"}

Handles == {"h1", "h2"}

NoThread == "none"

\* The entries the threads save, all of one date: two tasks, an event.
KEntries ==
    {EntryOf(1, <<Bullet_new(<<"x">>, "Task"), Bullet_new(<<"y">>, "Task")>>),
     EntryOf(1, <<Bullet_new(<<"z">>, "Event")>>)}

\* A thread is [handle, pc, op, date, rows, i, ok, res, mid, n, failed]: its
\* handle, where it is in its call (pc: "idle", "lock" when it waits for the
\* guard, "delete", "insert", "select", "return"), the call (op), its date,
\* the rows a save inserts and the next of them (i), whether the call met
\* no error (ok), what a load read (res), the threads that were between
\* the DELETE and the last INSERT of a save when the load read (mid), the
\* calls it has made (n) and whether one of them returned Err (failed).
ThreadOn(h) ==
    [handle |-> h, pc |-> "idle", op |-> "none", date |-> 0, rows |-> <<>>, i |-> 0,
     ok |-> TRUE, res |-> None, mid |-> {}, n |-> 0, failed |-> FALSE]

KFresh ==
    /\ kTbl = <<>>
    /\ kLock = [h \in Handles |-> NoThread]

\* Two threads that share one handle, or have a handle each.
KInit ==
    /\ KFresh
    /\ kThr \in {[t \in Threads |-> ThreadOn("h1")],
                 [t \in Threads |-> ThreadOn(IF t = "t1" THEN "h1" ELSE "h2")]}

KIdle ==
    /\ KFresh
    /\ kThr = [t \in Threads |-> ThreadOn("h1")]

KOnly == UNCHANGED <<codecVars, storeVars, migVars, fsVars, jVars, bVars, blt>>

\* A lock that is granted whoever holds the guard.
CanLockAlways(lock, h) == TRUE

\* self.conn.lock() returns when no thread holds the guard of the handle.
CanLock(lock, h) == lock[h] = NoThread

\* A thread calls save_entry(&entry).
KCallSave(t) ==
    /\ kThr[t].pc = "idle"
    /\ kThr[t].n < ConcMaxCalls
    /\ \E entry \in KEntries :
         \E keys \in KeyOrders(DOMAIN entry.bullets) :
           kThr' = [kThr EXCEPT ![t] =
                      [@ EXCEPT !.pc = "lock", !.op = "save_entry", !.date = entry.date,
                                !.rows = RowsOfEntry(entry, keys, 1), !.i = 1,
                                !.ok = TRUE, !.res = None, !.mid = {}]]
    /\ UNCHANGED <<kTbl, kLock>>
    /\ KOnly

\* A thread calls load_entry(date).
KCallLoad(t) ==
    /\ kThr[t].pc = "idle"
    /\ kThr[t].n < ConcMaxCalls
    /\ kThr' = [kThr EXCEPT ![t] =
                  [@ EXCEPT !.pc = "lock", !.op = "load_entry", !.date = 1,
                            !.rows = <<>>, !.i = 0, !.ok = TRUE, !.res = None,
                            !.mid = {}]]
    /\ UNCHANGED <<kTbl, kLock>>
    /\ KOnly

\* let conn = self.conn.lock().unwrap();
KLock(t) ==
    /\ kThr[t].pc = "lock"
    /\ CanLock(kLock, kThr[t].handle)
    /\ kLock' = [kLock EXCEPT ![kThr[t].handle] = t]
    /\ kThr' = [kThr EXCEPT ![t].pc =
                  IF kThr[t].op = "save_entry" THEN "delete" ELSE "select"]
    /\ UNCHANGED kTbl
    /\ KOnly

\* save_entry: "DELETE FROM bullets WHERE date = ?", which may fail.
KDelete(t) ==
    /\ kThr[t].pc = "delete"
    /\ \E fails \in BOOLEAN :
         IF fails
         THEN /\ kThr' = [kThr EXCEPT ![t].pc = "return", ![t].ok = FALSE]
              /\ UNCHANGED kTbl
         ELSE /\ kTbl' = DeleteByDate(kTbl, FormatDate(kThr[t].date))
              /\ kThr' = [kThr EXCEPT ![t].pc = "insert"]
    /\ UNCHANGED kLock
    /\ KOnly

\* save_entry: the next execution of the INSERT, which may fail.
KInsert(t) ==
    /\ kThr[t].pc = "insert"
    /\ \E fails \in BOOLEAN :
         IF fails
         THEN /\ kThr' = [kThr EXCEPT ![t].pc = "return", ![t].ok = FALSE]
              /\ UNCHANGED kTbl
         ELSE /\ kTbl' = InsertRow(kTbl, kThr[t].rows[kThr[t].i])
              /\ kThr' = [kThr EXCEPT ![t].i = @ + 1,
                                       ![t].pc = IF kThr[t].i = Len(kThr[t].rows)
                                                 THEN "return" ELSE "insert"]
    /\ UNCHANGED kLock
    /\ KOnly

\* load_entry: the SELECT and the loop over its rows.
KSelect(t) ==
    /\ kThr[t].pc = "select"
    /\ kThr' = [kThr EXCEPT ![t].pc = "return",
                             ![t].res = load_entry(kTbl, kThr[t].date),
                             ![t].mid = {u \in Threads \ {t} : kThr[u].pc = "insert"}]
    /\ UNCHANGED <<kTbl, kLock>>
    /\ KOnly

\* The call returns and its guard is dropped.
KReturn(t) ==
    /\ kThr[t].pc = "return"
    /\ kLock' = [kLock EXCEPT ![kThr[t].handle] = NoThread]
    /\ kThr' = [kThr EXCEPT ![t].pc = "idle", ![t].n = @ + 1,
                             ![t].failed = @ \/ ~kThr[t].ok]
    /\ UNCHANGED kTbl
    /\ KOnly

KNext ==
    \E t \in Threads :
      \/ KCallSave(t)
      \/ KCallLoad(t)
      \/ KLock(t)
      \/ KDelete(t)
      \/ KInsert(t)
      \/ KSelect(t)
      \/ KReturn(t)

---------------------------------------------------------------------------
(* entities.rs: the constructors and the state changes of Bullet.           *)

NoBullet == [op |-> "none", b |-> None, prev |-> None]

BulletIdle == blt = NoBullet

BulletOnly ==
    UNCHANGED <<codecVars, storeVars, migVars, fsVars, jVars, bVars, kVars>>

\* The contents the bullets are made with.
BulletContents == {<<"x">>, <<"y">>}

\* Bullet::complete
complete(b) ==
    IF b.bullet_type \in {"Task", "Priority"}
    THEN [b EXCEPT !.task_state = Some("Completed")] ELSE b

\* Bullet::migrate
migrate(b) ==
    IF b.bullet_type \in {"Task", "Priority"}
    THEN [b EXCEPT !.task_state = Some("Migrated")] ELSE b

\* Bullet::schedule
schedule(b) ==
    IF b.bullet_type \in {"Task", "Priority"}
    THEN [b EXCEPT !.task_state = Some("Scheduled")] ELSE b

\* The entry of the first day that holds the one bullet b.
EntryOfBullet(b) == add_bullet(Entry_new(1), b)

\* The first bullet of its type in an entry that was read back, if there is one.
FirstBullet(o, t) ==
    IF o = None THEN None
    ELSE IF get_bullets(o[1], t) = <<>> THEN None
    ELSE Some(get_bullets(o[1], t)[1])

BulletNew ==
    /\ \E content \in BulletContents, bullet_type \in BulletType :
          blt' = [op |-> "new", b |-> Some(Bullet_new(content, bullet_type)),
                  prev |-> None]
    /\ BulletOnly

BulletWithTaskState ==
    /\ \E content \in BulletContents, bullet_type \in BulletType, state \in TaskState :
          blt' = [op |-> "with_task_state",
                  b |-> Some(Bullet_with_task_state(content, bullet_type, state)),
                  prev |-> None]
    /\ BulletOnly

BulletComplete ==
    /\ blt.b # None
    /\ blt' = [op |-> "complete", b |-> Some(complete(blt.b[1])), prev |-> blt.b]
    /\ BulletOnly

BulletMigrate ==
    /\ blt.b # None
    /\ blt' = [op |-> "migrate", b |-> Some(migrate(blt.b[1])), prev |-> blt.b]
    /\ BulletOnly

BulletSchedule ==
    /\ blt.b # None
    /\ blt' = [op |-> "schedule", b |-> Some(schedule(blt.b[1])), prev |-> blt.b]
    /\ BulletOnly

\* The bullet is written into a text and the text is parsed.
BulletParse ==
    /\ blt.b # None
    /\ \E e \in {parse(1, serialize(EntryOfBullet(blt.b[1])))} :
          blt' = [op |-> "parse", b |-> FirstBullet(Some(e), blt.b[1].bullet_type),
                  prev |-> blt.b]
    /\ BulletOnly

\* The bullet is saved into an empty table and its entry is loaded.
BulletLoad ==
    /\ blt.b # None
    /\ \E saved \in {save_entry(<<>>, EntryOfBullet(blt.b[1]),
                                 <<blt.b[1].bullet_type>>, 0)} :
          blt' = [op |-> "load_entry",
                  b |-> FirstBullet(load_entry(saved.tbl, 1), blt.b[1].bullet_type),
                  prev |-> blt.b]
    /\ BulletOnly

BulletNext ==
    \/ BulletNew
    \/ BulletWithTaskState
    \/ BulletComplete
    \/ BulletMigrate
    \/ BulletSchedule
    \/ BulletParse
    \/ BulletLoad

---------------------------------------------------------------------------
(* Specifications: one per component, the other components at rest *)

\* The codec at work on entries and texts, everything else at rest.
InitCodec == CodecInit /\ StoreIdle /\ MigIdle /\ FsIdle /\ JIdle /\ BIdle /\ KIdle /\ BulletIdle

SpecCodec == InitCodec /\ [][CodecNext]_vars

\* One storage handle on an in-memory database.
InitStore == StoreInit /\ CodecIdle /\ MigIdle /\ FsIdle /\ JIdle /\ BIdle /\ KIdle /\ BulletIdle

SpecStore == InitStore /\ [][StoreNext]_vars

\* A fresh database and a migrations directory, initialize() called in turn.
InitMig == MigInit /\ CodecIdle /\ StoreIdle /\ FsIdle /\ JIdle /\ BIdle /\ KIdle /\ BulletIdle

SpecMig == InitMig /\ [][MigNext]_vars

\* The file backend with its hook registry.
InitFs == FsInit /\ CodecIdle /\ StoreIdle /\ MigIdle /\ JIdle /\ BIdle /\ KIdle /\ BulletIdle

SpecFs == InitFs /\ [][FsNext]_vars

\* A Journal over its repository, with a second handle on the same backend.
InitJournal == JInit /\ CodecIdle /\ StoreIdle /\ MigIdle /\ FsIdle /\ BIdle /\ KIdle /\ BulletIdle

SpecJournal == InitJournal /\ [][JNext]_vars

\* A Journal asked for spans of dates.
InitRange == RInit /\ CodecIdle /\ StoreIdle /\ MigIdle /\ FsIdle /\ BIdle /\ KIdle /\ BulletIdle

SpecRange == InitRange /\ [][RNext]_vars

\* One thread's queries on a storage handle.
InitQueries == QInit /\ CodecIdle /\ StoreIdle /\ MigIdle /\ FsIdle /\ JIdle /\ KIdle /\ BulletIdle

SpecQueries == InitQueries /\ [][QNext]_vars

\* Two threads at work on one database.
InitThreads == KInit /\ CodecIdle /\ StoreIdle /\ MigIdle /\ FsIdle /\ JIdle /\ BIdle /\ BulletIdle

SpecThreads == InitThreads /\ [][KNext]_vars

\* Two processes that start on a fresh database at the same time.
InitStart == MigInit /\ CodecIdle /\ StoreIdle /\ FsIdle /\ JIdle /\ BIdle /\ KIdle /\ BulletIdle

SpecStart == InitStart /\ [][PNext]_vars

\* Bullets made by the constructors, changed and read back.
InitBullet ==
    blt = NoBullet /\ CodecIdle /\ StoreIdle /\ MigIdle /\ FsIdle /\ JIdle /\ BIdle /\ KIdle

SpecBullet == InitBullet /\ [][BulletNext]_vars

\* The same calls made on both realizations of the storage backend.
InitBackends == BInit /\ CodecIdle /\ StoreIdle /\ MigIdle /\ FsIdle /\ JIdle /\ KIdle /\ BulletIdle

SpecBackends == InitBackends /\ [][BNext]_vars

---------------------------------------------------------------------------
(* Claims about the storage backend *)

SameBullets(a, b) == \A t \in BulletType : get_bullets(a, t) = get_bullets(b, t)

SavedOk == sOp.op = "save_entry" /\ sOp.ok

\* C2: upsert supersedes.  After save_entry(A) and then save_entry(B) for the
\* same date D, load_entry(D) returns exactly B's bullets (types, contents,
\* per-type order), and the table holds no row for D besides B's: nothing of
\* A is left.
C2_UpsertSupersedes ==
    (SavedOk /\ sOp.after_save) =>
        LET B == sOp.entry[1]
            got == load_entry(tbl, sOp.date)
        IN /\ Len(SelectByDate(tbl, FormatDate(sOp.date))) = total_bullets(B)
           /\ IF is_empty(B) THEN got = None
              ELSE got # None /\ SameBullets(got[1], B)

C2_Witness ==
    /\ SavedOk
    /\ sOp.after_save
    /\ total_bullets(sOp.entry[1]) = 2
    /\ Len(tbl) > 2

\* C3: for every Entry e with at least one bullet, load_entry(e.date) after
\* save_entry(e) returns an entry for that date equal to e bullet for bullet:
\* content, type and task_state of each bullet, and the order within each type.
C3_SaveLoadRoundTrip ==
    (SavedOk /\ ~is_empty(sOp.entry[1])) =>
        LET got == load_entry(tbl, sOp.date) IN
        /\ got # None
        /\ got[1].date = sOp.date
        /\ SameBullets(got[1], sOp.entry[1])

C3_Witness ==
    /\ SavedOk
    /\ Len(get_bullets(sOp.entry[1], "Task")) = 2
    /\ get_bullets(sOp.entry[1], "Task")[1] # get_bullets(sOp.entry[1], "Task")[2]
    /\ load_entry(tbl, sOp.date) # None

---------------------------------------------------------------------------
(* Claims about the migration runner *)

Discovered == discover_migrations(migDir)

DiscoveredNames == {Discovered[i].name : i \in 1..Len(Discovered)}

\* C4: migration idempotence.  When initialize() has run twice in sequence on
\* the same database (the first run, on the fresh database, returning Ok),
\* the body of each discovered migration has been executed exactly once, and
\* the set of applied versions after the second run is the set after the
\* first run.
C4_MigrationIdempotence ==
    (migRun.n >= 2 /\ migRun.earlier_ok) =>
        /\ \A name \in DiscoveredNames : migRun.total[name] = 1
        /\ \A name \in MigNames : migRun.exec[name] = 0
        /\ get_applied_migrations(migTable) = migRun.applied_first

C4_Witness ==
    /\ migRun.n = 2
    /\ migRun.earlier_ok
    /\ migRun.ok
    /\ Cardinality(DiscoveredNames) >= 2
    /\ Len(migDir) > Len(Discovered)

\* The body of the k-th discovered migration was executed by the last call
\* and failed.
BodyFailed(run) ==
    /\ run.body_failed > 0
    /\ run.exec[Discovered[run.body_failed].name] = 1

\* C19: when the body of a migration fails to apply, initialize() returns the
\* error (no backend is constructed), no migration after the failing one is
\* executed, and the applied set is the one before the call together with
\* the migrations the call applied before the failing one, none of a version
\* above the failing one's.
C19_BodyFailureHalts ==
    [][(migRun'.n = migRun.n + 1 /\ BodyFailed(migRun')) =>
          /\ ~migRun'.ok
          /\ \A j \in (migRun'.body_failed + 1)..Len(Discovered) :
                 migRun'.exec[Discovered[j].name] = 0
          /\ migTable' =
                 migTable \cup
                 {[version |-> Discovered[i].version, name |-> Discovered[i].name] :
                    i \in {h \in 1..(migRun'.body_failed - 1) :
                              \A r \in migTable : r.version # Discovered[h].version}}
          /\ \A r \in migTable' : r.version <= Discovered[migRun'.body_failed].version
      ]_vars

\* the second of three migrations failed in its body after the first was
\* applied
C19_Witness ==
    /\ migRun.n >= 1
    /\ BodyFailed(migRun)
    /\ migRun.body_failed = 2
    /\ Len(Discovered) = 3
    /\ migRun.exec[Discovered[1].name] = 1
    /\ \E r \in migTable : r.version = Discovered[1].version
    /\ ~migRun.ok

AllStoreDates == StoreDateSet \cup {BystanderDate}

\* C23: a delete_entry(d) that returned Ok leaves no row of d, so that
\* load_entry(d) returns absence, and leaves the other dates as they were;
\* on a date without rows delete_entry returns Ok whenever its statement
\* does, and changes nothing.
C23_DeleteRemovesAll ==
    /\ [](\A d \in AllStoreDates :
            SelectByDate(tbl, FormatDate(d)) = <<>> =>
                delete_entry(tbl, d, FALSE) = [tbl |-> tbl, ok |-> TRUE])
    /\ [][(sOp'.op = "delete_entry" /\ sOp'.ok) =>
            /\ load_entry(tbl', sOp'.date) = None
            /\ \A i \in 1..Len(tbl') : tbl'[i].date # FormatDate(sOp'.date)
            /\ \A d \in AllStoreDates \ {sOp'.date} :
                   load_entry(tbl', d) = load_entry(tbl, d)
       ]_vars

\* a delete of a date that held two bullets, with another date's rows left
C23_Witness ==
    /\ sOp.op = "delete_entry"
    /\ sOp.ok
    /\ sOp.entry # None
    /\ total_bullets(sOp.entry[1]) = 2
    /\ load_entry(tbl, sOp.date) = None
    /\ tbl = BystanderRows

\* C33: each migration is all-or-nothing.  Whenever initialize() has
\* returned, with Ok or with Err, the body of a discovered migration has
\* taken effect on the schema (in part or in whole) if and only if the
\* migrations table holds the record of that migration.
C33_AllOrNothing ==
    \A i \in 1..Len(Discovered) :
        (migSchema[Discovered[i].name] # "none")
            <=> (\E r \in migTable : /\ r.version = Discovered[i].version
                                    /\ r.name = Discovered[i].name)

\* No two scripts of the directory have one version.
DistinctVersions ==
    \A i, j \in 1..Len(Migrations) :
        Migrations[i].version = Migrations[j].version => i = j

\* C29: when two initialize() runs on one backend have interleaved and both
\* have returned, neither has failed, the body of each migration has been
\* executed exactly once and each version is recorded once.
C29_ConcurrentStartSafe ==
    (DistinctVersions /\ \A p \in Procs : migProc[p].pc = "done") =>
        /\ \A p \in Procs : migProc[p].ok
        /\ \A i \in 1..Len(Migrations) :
              /\ migProc["p1"].exec[Migrations[i].name]
                    + migProc["p2"].exec[Migrations[i].name] = 1
              /\ Cardinality({r \in migTable : r.version = Migrations[i].version}) = 1

\* The files of the directory that discovery takes for migrations.
WellFormed(f) == f.ext = "sql" /\ ParseI32(f.prefix) # None

\* The versions discovery reports are those of the well-formed files, each
\* as often as the directory holds it, in ascending order: the sequence of
\* versions is the same for every order of the files.
DiscoveryIgnoresFileOrder ==
    LET Holds(ms) ==
            /\ \A i, j \in 1..Len(ms) : i < j => ms[i].version <= ms[j].version
            /\ \A f \in MigFilePool :
                  WellFormed(f) =>
                      Cardinality({i \in 1..Len(ms) :
                                      ms[i].version = ParseI32(f.prefix)[1]})
                        = Cardinality({k \in 1..Len(migDir) :
                                          /\ WellFormed(migDir[k])
                                          /\ ParseI32(migDir[k].prefix)
                                                = ParseI32(f.prefix)})
    IN Holds(Discovered)

\* What one call of initialize() did, given the order in which it executed
\* bodies and the versions the table held when it began: it executed no body
\* of an applied version, only bodies of well-formed files of the directory,
\* all of the outstanding ones when it returned Ok, and discovery does not
\* depend on the order of the files.
RunSkipsAndCovers(order, applied, ok) ==
    /\ \A i \in 1..Len(order) : order[i].version \notin applied
    /\ \A i \in 1..Len(order) :
          \E k \in 1..Len(migDir) : /\ WellFormed(migDir[k])
                                    /\ MigName(migDir[k]) = order[i].name
                                    /\ ParseI32(migDir[k].prefix) = Some(order[i].version)
    /\ ok => \A k \in 1..Len(migDir) :
                (WellFormed(migDir[k]) /\ ParseI32(migDir[k].prefix)[1] \notin applied)
                    => \E i \in 1..Len(order) : order[i].name = MigName(migDir[k])
    /\ DiscoveryIgnoresFileOrder

---------------------------------------------------------------------------
(* Claims about the bullets *)

TaskOrPriority(b) == b.bullet_type \in {"Task", "Priority"}

\* C30: every bullet made by a constructor, by complete, migrate or schedule,
\* by parse or by load_entry has a task state exactly when its type is Task or
\* Priority; a Task or Priority made by Bullet::new is Pending; complete,
\* migrate and schedule leave a bullet of another type as it was.
C30_TaskStateIffTaskOrPriority ==
    blt.b # None =>
        /\ (blt.b[1].task_state # None) <=> TaskOrPriority(blt.b[1])
        /\ (blt.op = "new" /\ TaskOrPriority(blt.b[1]))
               => blt.b[1].task_state = Some("Pending")
        /\ (blt.op \in {"complete", "migrate", "schedule"}
                /\ ~TaskOrPriority(blt.prev[1])) => blt.b = blt.prev

---------------------------------------------------------------------------
(* Claims about the file backend and its hooks *)

HookFailed == \E i \in 1..Len(fsOp.calls) : ~fsOp.calls[i].ok

\* C5: hook isolation.  When the write of a save has succeeded and a
\* registered hook fails, every hook registered after the failing one is
\* still invoked (each hook of the registry once, in registration order),
\* execute_write_hooks returns success and the save returns Ok.
C5_HookIsolation ==
    (fsOp.n > 0 /\ fsOp.wrote) =>
        /\ fsOp.ok
        /\ Len(fsOp.calls) = Len(hookReg)
        /\ \A i \in 1..Len(fsOp.calls) : fsOp.calls[i].hook = i

C5_Witness ==
    /\ fsOp.n > 0
    /\ fsOp.wrote
    /\ fsOp.ok
    /\ Len(hookReg) = 2
    /\ ~fsOp.calls[1].ok
    /\ fsOp.calls[2].ok
    /\ hookReg[2] = "logger"
    /\ writeLog = 1

HookEventsAt == {i \in 1..Len(fsOp.trace) : fsOp.trace[i].ev = "hook"}

\* C20: in every save of the file backend each hook is invoked after the
\* write of the file completed, a hook registered before another is invoked
\* before it, and a save whose write failed invokes no hook.
C20_HooksAfterWriteInOrder ==
    fsOp.n > 0 =>
        /\ \A i \in HookEventsAt :
               \E w \in 1..(i - 1) : fsOp.trace[w] = WriteEvent
        /\ \A i, j \in HookEventsAt :
               fsOp.trace[i].hook < fsOp.trace[j].hook => i < j
        /\ ~fsOp.wrote => (HookEventsAt = {} /\ fsOp.calls = <<>>)

\* a save with two hooks registered whose write succeeded
C20_Witness ==
    /\ fsOp.n > 0
    /\ fsOp.wrote
    /\ Len(hookReg) = 2
    /\ Len(fsOp.trace) = 3
    /\ fsOp.trace[2].hook = 1
    /\ fsOp.trace[3].hook = 2

\* The calls of the sync hook in the last save, and the last of them.
SyncCalls == {i \in 1..Len(fsOp.calls) : hookReg[fsOp.calls[i].hook] = "sync"}

LastSyncCall == CHOOSE i \in SyncCalls : \A j \in SyncCalls : j <= i

\* The secondary database holds, for the date of the last save, the bullets
\* of the entry that was written and no others.
SecondaryMirrors ==
    IF is_empty(fsOp.entry[1]) THEN load_entry(syncTbl, fsOp.date) = None
    ELSE /\ load_entry(syncTbl, fsOp.date) # None
         /\ SameBullets(load_entry(syncTbl, fsOp.date)[1], fsOp.entry[1])

\* In every call of the sync hook the metadata refresh ran exactly when the
\* secondary save had succeeded, and a failed secondary save made the hook
\* fail.
RefreshFollowsSave ==
    \A i \in SyncCalls : fsOp.calls[i].refreshed <=> fsOp.calls[i].ok

\* C35 as stated: after a save of the file backend that returned Ok, with the
\* sync hook registered, the secondary database holds exactly the bullets of
\* the entry just written for its date; the metadata refresh runs only after
\* the secondary save succeeded, and a failed secondary save skips it and
\* is a hook failure.
C35_SyncMirrorsEntry ==
    (fsOp.n > 0 /\ fsOp.ok /\ SyncCalls # {}) =>
        /\ SecondaryMirrors
        /\ RefreshFollowsSave

\* C35, amended: the secondary database holds exactly the bullets of the
\* entry just written when the last call of the sync hook in that save
\* succeeded; the rest as stated.
C35_SyncMirrorsWhenHookSucceeds ==
    (fsOp.n > 0 /\ fsOp.ok /\ SyncCalls # {}) =>
        /\ fsOp.calls[LastSyncCall].ok => SecondaryMirrors
        /\ RefreshFollowsSave

\* a second save whose entry has a bullet, with the sync hook registered
\* twice: its first call failed, its second succeeded
C35_Witness ==
    /\ fsOp.n = 2
    /\ fsOp.ok
    /\ hookReg = <<"sync", "sync">>
    /\ ~fsOp.calls[1].ok
    /\ fsOp.calls[2].ok
    /\ fsOp.calls[2].refreshed
    /\ total_bullets(fsOp.entry[1]) = 1
    /\ Len(syncTbl) = 1

---------------------------------------------------------------------------
(* Journal cache *)

\* The backend holds entry for its date, as a load of that date shows it (the
\* database keeps no row for an entry without bullets).
WrittenThrough(kind, store, entry) ==
    LET got == repo_load(kind, store, entry.date) IN
    IF got = None THEN kind = "db" /\ is_empty(entry)
    ELSE SameBullets(got[1], entry)

\* C6: lazy materialization.  A get_entry_mut(d) that returns Ok returns an
\* entry, never absence, and d is then in the cache with that entry; for a d
\* the backend holds nothing for, the entry is the zero-bullet Entry for d;
\* and a get_entry(d) that follows at once, before any save, returns that
\* same zero-bullet Entry from the cache, without a backend call, while the
\* backend still holds nothing for d.
C6_LazyMaterialization ==
    /\ (jOp.op = "get_entry_mut" /\ jOp.ok) =>
          /\ jOp.res # None
          /\ jCache[jOp.date] = jOp.res
    /\ (jOp.op = "get_entry_mut" /\ jOp.trail = "synthesized") =>
          /\ jOp.ok
          /\ jOp.res = Some(Entry_new(jOp.date))
          /\ total_bullets(jOp.res[1]) = 0
    /\ (jOp.op = "get_entry" /\ jOp.after = "synthesized") =>
          /\ jOp.ok
          /\ jOp.res = Some(Entry_new(jOp.date))
          /\ ~jOp.called
          /\ repo_load(jKind, JStore, jOp.date) = None

C6_Witness ==
    /\ jOp.op = "get_entry"
    /\ jOp.after = "synthesized"
    /\ jOp.res = Some(Entry_new(jOp.date))
    /\ repo_load(jKind, JStore, jOp.date) = None

\* C7: absence is never cached.  A get_entry(d) that returns absence has
\* asked the backend and leaves d out of the cache; and when an entry for d
\* is then written to the backend behind the journal's back, the next
\* get_entry(d) asks the backend again and, unless the load fails, returns
\* the entry the backend now holds.
C7_AbsenceNotCached ==
    /\ (jOp.op = "get_entry" /\ jOp.ok /\ jOp.res = None) =>
          /\ jCache[jOp.date] = None
          /\ jOp.called
    /\ (jOp.op = "get_entry" /\ jOp.after = "absent_written") =>
          /\ jOp.called
          /\ jOp.ok =>
                /\ jOp.res # None
                /\ jOp.res = repo_load(jKind, JStore, jOp.date)
                /\ ~is_empty(jOp.res[1])

C7_Witness ==
    /\ jOp.op = "get_entry"
    /\ jOp.after = "absent_written"
    /\ jOp.ok
    /\ jOp.res # None
    /\ total_bullets(jOp.res[1]) > 0

\* C8: every step that is a Journal.save_entry(d): when d was in the cache,
\* it calls the backend's save with the cached copy, leaves the cache as it
\* was and, when the save returns Ok, the backend holds that copy for d;
\* when d was not in the cache, it returns Ok, makes no backend call and
\* leaves cache and backend unchanged.
C8_SaveWritesThroughOrNoOp ==
    [][ jOp'.op = "save_entry" =>
          IF jCache[jOp'.date] # None
          THEN /\ jOp'.called
               /\ jOp'.arg = jCache[jOp'.date]
               /\ jCache' = jCache
               /\ jOp'.ok =>
                    WrittenThrough(jKind, [tbl |-> jTbl', files |-> jFiles'],
                                   jCache[jOp'.date][1])
          ELSE /\ jOp'.ok
               /\ ~jOp'.called
               /\ jOp'.arg = None
               /\ jCache' = jCache
               /\ jTbl' = jTbl
               /\ jFiles' = jFiles ]_vars

\* a save_entry for a date that is not in the cache though the backend holds
\* an entry for it
C8_Witness ==
    /\ jOp.op = "save_entry"
    /\ ~jOp.cached
    /\ jOp.ok
    /\ jCache[jOp.date] = None
    /\ repo_load(jKind, JStore, jOp.date) # None

\* C9: in every step, the cache holds for each date at most one entry, of
\* that date; a get_entry(d) for a d that was in the cache returns the cached
\* copy, makes no backend call and leaves the cache as it was; and the entry
\* cached for d changes only when the caller edits it or replaces it
\* (edit_entry_for_date), never because of a write to the backend.
C9_CachedCopyIsSticky ==
    [][ /\ \A d \in JDateSet :
             /\ Len(jCache'[d]) <= 1
             /\ jCache'[d] # None => jCache'[d][1].date = d
             /\ (jCache[d] # None /\ jCache'[d] # jCache[d]) =>
                    jOp'.op \in {"mutate", "edit_entry_for_date"}
        /\ (jOp'.op = "get_entry" /\ jCache[jOp'.date] # None) =>
             /\ jOp'.ok
             /\ jOp'.res = jCache[jOp'.date]
             /\ ~jOp'.called
             /\ jCache' = jCache ]_vars

\* a get_entry that returned the cached entry without bullets while the
\* backend holds bullets for the date, written after the date was cached
C9_Witness ==
    /\ jOp.op = "get_entry"
    /\ jOp.cached
    /\ ~jOp.called
    /\ jOp.res = Some(Entry_new(jOp.date))
    /\ repo_load(jKind, JStore, jOp.date) # None
    /\ ~is_empty(repo_load(jKind, JStore, jOp.date)[1])

\* C11: every step in which the caller edits the cached entry it got from
\* get_entry_mut(d) changes the cached entry and nothing in the backend: load
\* of every date and list_dates over all dates return what they returned
\* before, so the edit is not visible through the backend before a save.
C11_EditsStayInCache ==
    [][ jOp'.op = "mutate" =>
          /\ jCache'[jOp'.date] # jCache[jOp'.date]
          /\ jTbl' = jTbl
          /\ jFiles' = jFiles
          /\ \A d \in JDateSet :
               repo_load(jKind, [tbl |-> jTbl', files |-> jFiles'], d)
                 = repo_load(jKind, JStore, d)
          /\ repo_list_dates(jKind, [tbl |-> jTbl', files |-> jFiles'], 1, JDates)
               = repo_list_dates(jKind, JStore, 1, JDates) ]_vars

\* an edited entry in the cache for a date the backend holds nothing for
C11_Witness ==
    /\ jOp.op = "mutate"
    /\ total_bullets(jCache[jOp.date][1]) > 0
    /\ repo_load(jKind, JStore, jOp.date) = None
    /\ repo_list_dates(jKind, JStore, 1, JDates) = <<>>

\* C10: every step that is a Journal.save_entry(d) returning an error leaves
\* the cache as it was and leaves the backend un-updated: a load of any date
\* returns what it returned before the failed save.
C10_FailedSaveLeavesBackend ==
    [][ (jOp'.op = "save_entry" /\ ~jOp'.ok) =>
          /\ jCache' = jCache
          /\ \A d \in JDateSet :
               repo_load(jKind, [tbl |-> jTbl', files |-> jFiles'], d)
                 = repo_load(jKind, JStore, d) ]_vars

\* C37: after edit_entry_for_date(d) returned Ok, journal.get_entry(d) is
\* present exactly when storage.load_entry(d) is, and then the two hold the
\* same bullets per type in the same order; so too when the edited text
\* parses to an entry without bullets.
C37_EditLeavesCacheAndBackendAgreed ==
    (jOp.op = "edit_entry_for_date" /\ jOp.ok) =>
        LET Agree(cached, stored) ==
                /\ (cached # None) <=> (stored # None)
                /\ (cached # None /\ stored # None) => SameBullets(cached[1], stored[1])
        IN Agree(get_entry(jKind, jCache, JStore, jOp.date, FALSE).res,
                 repo_load(jKind, JStore, jOp.date))

---------------------------------------------------------------------------
(* Claims about the range operations of the journal *)

\* The backend holds data for date d.
Durable(d) ==
    IF jKind = "db" THEN \E i \in 1..Len(jTbl) : jTbl[i].date = FormatDate(d)
    ELSE jFiles[d] # None

\* C21: get_entries_in_range(range) returns, in ascending date order, exactly
\* the entries get_entry reports present for the dates start..end (the
\* cached entry of a date in the cache, else the entry the backend holds),
\* touches no date outside the range, and leaves every date of the range
\* that the backend holds in the cache.
C21_EntriesInRange ==
    [][(jOp'.op = "get_entries_in_range" /\ jOp'.ok) =>
          LET InRange == {d \in RDateSet : jOp'.start <= d /\ d <= jOp'.end}
              Present(d) == jCache[d] # None \/ Durable(d)
              Reported(d) == IF jCache[d] # None THEN jCache[d][1]
                             ELSE repo_load(jKind, JStore, d)[1]
          IN /\ Len(jOp'.res) = Cardinality({d \in InRange : Present(d)})
             /\ \A i, j \in 1..Len(jOp'.res) :
                    i < j => jOp'.res[i].date < jOp'.res[j].date
             /\ \A d \in InRange :
                    Present(d) => \E i \in 1..Len(jOp'.res) : jOp'.res[i] = Reported(d)
             /\ \A d \in InRange : Durable(d) => jCache'[d] # None
             /\ \A d \in RDateSet \ InRange : jCache'[d] = jCache[d]
      ]_vars

\* a call over two dates that returned two entries, one of them held by the
\* cache only
C21_Witness ==
    /\ jOp.op = "get_entries_in_range"
    /\ jOp.ok
    /\ Len(jOp.res) = 2
    /\ \E i \in 1..2 : ~Durable(jOp.res[i].date)
    /\ \E i \in 1..2 : Durable(jOp.res[i].date)

\* The day of a call at which repository.load is called and returns Err: the
\* first day of the call that is not in the cache, when it is fail_at.
FailingDay(cache, start, end, fail_at) ==
    {d \in RDateSet : /\ d = fail_at
                      /\ start <= d
                      /\ d <= end
                      /\ cache[d] = None}

\* C31: when repository.load returns Err inside get_entry, get_entry_mut or
\* get_entries_in_range, the call returns Err (no absence, no new empty
\* entry, no entries), the failing date is not put into the cache, no date
\* after it is touched and the dates of the call before it are in the cache
\* as get_entry leaves them; a call returns Err in no other case.
C31_LoadFailurePropagates ==
    [][(jOp'.op \in {"get_entry", "get_entry_mut", "get_entries_in_range"}) =>
          LET failing == FailingDay(jCache, jOp'.start, jOp'.end, jOp'.fail_at)
          IN /\ jOp'.ok <=> failing = {}
             /\ \A d \in failing :
                    /\ jOp'.res = <<>>
                    /\ jCache'[d] = None
                    /\ \A e \in RDateSet : e > d => jCache'[e] = jCache[e]
                    /\ \A e \in RDateSet : e < jOp'.start => jCache'[e] = jCache[e]
                    /\ \A e \in RDateSet : (jOp'.start <= e /\ e < d) =>
                           jCache'[e] = get_entry(jKind, jCache, JStore, e, FALSE).cache[e]
      ]_vars

\* a range call that failed at its second day after it had put the first
\* day into the cache
C31_Witness ==
    /\ jOp.op = "get_entries_in_range"
    /\ ~jOp.ok
    /\ jOp.start = 1
    /\ jOp.fail_at = 2
    /\ jCache[1] # None
    /\ jCache[2] = None
    /\ Durable(2)

\* What the backend holds for date d, in the table and in the files.
DurableState(tbl_, files, d) ==
    [rows |-> SelectByDate(tbl_, FormatDate(d)), file |-> files[d]]

\* C38: get_entry, get_entry_mut, get_entries_in_range and
\* list_dates_in_range leave the backend as it was, for every date; a
\* save_entry(d) of the journal leaves what the backend holds for every
\* date other than d as it was.
C38_OnlySaveWrites ==
    [][/\ (jOp'.op \in {"get_entry", "get_entry_mut", "get_entries_in_range",
                        "list_dates_in_range"})
             => (jTbl' = jTbl /\ jFiles' = jFiles)
       /\ (jOp'.op = "save_entry") =>
             \A e \in RDateSet \ {jOp'.start} :
                 /\ DurableState(jTbl', jFiles', e) = DurableState(jTbl, jFiles, e)
                 /\ repo_load(jKind, [tbl |-> jTbl', files |-> jFiles'], e)
                       = repo_load(jKind, JStore, e)
      ]_vars

\* a save_entry of the first date reached the backend while the second date
\* is in the cache only
C38_Witness ==
    /\ jOp.op = "save_entry"
    /\ jOp.ok
    /\ jOp.start = 1
    /\ Durable(1)
    /\ jCache[2] # None
    /\ ~Durable(2)

\* C22: list_dates_in_range(range) returns the dates of the range that the
\* backend holds, in ascending order, whatever the cache holds: a date that
\* is in the cache only is not listed.
C22_ListDatesIsDurable ==
    jOp.op = "list_dates_in_range" =>
        /\ jOp.res = SelectSeq(days(jOp.start, jOp.end), Durable)
        /\ \A d \in RDateSet :
               (jCache[d] # None /\ ~Durable(d)) =>
                   \A i \in 1..Len(jOp.res) : jOp.res[i] # d

\* a listing over two dates, one in the cache only and one in the backend
C22_Witness ==
    /\ jOp.op = "list_dates_in_range"
    /\ jOp.start = 1
    /\ jOp.end = 2
    /\ Len(jOp.res) = 1
    /\ \E d \in RDateSet : jCache[d] # None /\ ~Durable(d)

---------------------------------------------------------------------------
(* Claims about the queries of the storage backend *)

\* The dates of the span start..end for which the table holds a row.
StoredIn(start, end) ==
    {d \in QDateSet :
        /\ start <= d
        /\ d <= end
        /\ \E i \in 1..Len(bTbl) : bTbl[i].date = FormatDate(d)}

\* The dates of what a query returned, in its order.
DatesOf(res, op) ==
    [i \in 1..Len(res) |-> IF op = "list_dates" THEN res[i] ELSE res[i].date]

\* C24: load_entries(range) and list_dates(range) return the stored dates d
\* with start <= d <= end, both bounds included, each once, in ascending
\* order.
C24_RangeInclusiveAscending ==
    bOp.op \in {"load_entries", "list_dates"} =>
        LET Holds(ds) ==
                /\ \A i, j \in 1..Len(ds) : i < j => ds[i] < ds[j]
                /\ {ds[i] : i \in 1..Len(ds)} = StoredIn(bOp.start, bOp.end)
        IN  Holds(DatesOf(bOp.res, bOp.op))

\* load_entries over the two dates of a table whose rows were inserted for
\* the later date first
C24_Witness ==
    /\ bOp.op = "load_entries"
    /\ bOp.start = 1
    /\ bOp.end = 2
    /\ Len(bOp.res) = 2
    /\ bTbl[1].date = FormatDate(2)

\* C25: find_entries_with_tasks, find_entries_with_events and
\* find_entries_with_priorities return, in ascending date order, the full
\* entries of the dates of the range that hold a bullet of the type.
C25_FindEntriesByType ==
    bOp.op = "find_entries" =>
        /\ bOp.outcome = "returned"
        /\ LET found == {d \in StoredIn(bOp.start, bOp.end) :
                            \E i \in 1..Len(bTbl) :
                                bTbl[i].date = FormatDate(d) /\ bTbl[i].type = bOp.type}
           IN /\ Len(bOp.res) = Cardinality(found)
              /\ \A i, j \in 1..Len(bOp.res) : i < j => bOp.res[i].date < bOp.res[j].date
              /\ \A d \in found :
                     \E i \in 1..Len(bOp.res) : Some(bOp.res[i]) = load_entry(bTbl, d)

\* C36: no operation of the backend locks the connection mutex while it
\* holds it: every call of search_entries, find_entries_with_tasks,
\* find_entries_with_events and find_entries_with_priorities returns (and
\* with that drops its guard), also when a stored date matches.
C36_QueriesReturn ==
    bOp.op \in {"find_entries", "search_entries"} => bOp.outcome = "returned"

\* C39: a save_entry(e) or delete_entry(d) of the database backend, failed or
\* not, leaves every other date as it was: load_entry returns for it the entry it
\* returned before the call, with the same bullets in the same order.
C39_OtherDatesUntouched ==
    [][(bOp'.op \in {"save_entry", "delete_entry"}) =>
          \A d \in QDateSet \ {bOp'.start} :
              load_entry(bTbl', d) = load_entry(bTbl, d)
      ]_vars

\* the first date was deleted while the second holds two bullets
C39_Witness ==
    /\ bOp.op = "delete_entry"
    /\ bOp.start = 1
    /\ load_entry(bTbl, 1) = None
    /\ load_entry(bTbl, 2) # None
    /\ total_bullets(load_entry(bTbl, 2)[1]) = 2

\* C26: count_entries() is the number of distinct dates for which
\* load_entry returns an entry, after any saves and deletes.
C26_CountIsDatesPresent ==
    /\ count_entries(bTbl) = Cardinality({d \in QDateSet : load_entry(bTbl, d) # None})
    /\ bOp.op = "count_entries" =>
          bOp.res = Cardinality({d \in QDateSet : load_entry(bTbl, d) # None})

\* a count of 1 over a table of two rows
C26_Witness ==
    /\ bOp.op = "count_entries"
    /\ bOp.res = 1
    /\ Len(bTbl) = 2

---------------------------------------------------------------------------
(* Claims about threads on the storage backend *)

\* The thread is past the lock of its call and has not returned.
Holding(t) == kThr[t].pc \in {"delete", "insert", "select", "return"}

\* C27: the calls on one handle are serialized by its mutex: no two threads
\* are inside a call on the same handle at once, and no load_entry reads
\* the table while a save_entry on the same handle is between its DELETE
\* and its last INSERT.
C27_SerializedByMutex ==
    /\ \A t, u \in Threads :
          (t # u /\ kThr[t].handle = kThr[u].handle) => ~(Holding(t) /\ Holding(u))
    /\ \A t \in Threads : \A u \in kThr[t].mid : kThr[u].handle # kThr[t].handle

\* a load_entry waiting for the guard while a save_entry on the same handle
\* has inserted the first of its two rows
C27_Witness ==
    \E t, u \in Threads :
        /\ kThr[t].handle = kThr[u].handle
        /\ t # u
        /\ kThr[t].op = "load_entry"
        /\ kThr[t].pc = "lock"
        /\ kThr[u].pc = "insert"
        /\ kThr[u].i = 2
        /\ kLock[kThr[u].handle] = u

\* C28: when two writers with a handle each have saved different entries
\* for one date at the same time and both saves have returned Ok, the rows
\* of the date are those of one of the two entries.
C28_LastWriteWins ==
    (/\ kThr["t1"].handle # kThr["t2"].handle
     /\ \A t \in Threads :
           /\ kThr[t].pc = "idle"
           /\ kThr[t].op = "save_entry"
           /\ kThr[t].n = 1
           /\ ~kThr[t].failed
     /\ kThr["t1"].rows # kThr["t2"].rows)
    => \E t \in Threads : SelectByDate(kTbl, FormatDate(1)) = kThr[t].rows

---------------------------------------------------------------------------
(* Claims about the two backends *)

\* Two load results that a caller cannot tell apart.
SameLoad(a, b) ==
    IF a = None \/ b = None THEN a = b
    ELSE a[1].date = b[1].date /\ SameBullets(a[1], b[1])

\* C12: every load and every list_dates made on both backends after the same
\* saves returns the same on both: the same presence, for each type the same
\* bullets (content, type, task_state) in the same order, the same dates.
C12_BackendsAgree ==
    /\ bOp.op = "load" => SameLoad(bOp.db, bOp.file)
    /\ bOp.op = "list_dates" => bOp.db = bOp.file

\* C13: right after an Entry with zero bullets was saved for date d, on each
\* backend load of d returns absence and list_dates over all dates does not
\* include d.
C13_EmptyIsAbsent ==
    (bOp.op = "save" /\ is_empty(bOp.entry[1])) =>
        /\ load_entry(bTbl, bOp.date) = None
        /\ fs_load(bFiles, bOp.date) = None
        /\ \A i \in 1..Len(list_dates(bTbl, 1, BackendDates)) :
              list_dates(bTbl, 1, BackendDates)[i] # bOp.date
        /\ \A i \in 1..Len(fs_list_dates(bFiles, 1, BackendDates)) :
              fs_list_dates(bFiles, 1, BackendDates)[i] # bOp.date

---------------------------------------------------------------------------
(* Claims about the codec *)

Contents(bs) == [i \in 1..Len(bs) |-> bs[i].content]

SameContents(a, b) ==
    \A t \in BulletType : Contents(get_bullets(a, t)) = Contents(get_bullets(b, t))

\* C14: minimal-form asymmetry.  serialize of a brand-new Entry is the empty
\* string; parse(date, empty_template()) is an Entry of that date with zero
\* bullets; and serialize of that parsed Entry is the empty string, which is
\* not the template.
C14_MinimalFormAsymmetry ==
    /\ (cOp = "serialize" /\ cSrc = Some(Entry_new(cDate))) => cText = <<>>
    /\ (cOp = "parsed" /\ cVia = "empty_template") =>
          /\ cText = empty_template
          /\ cEntry.date = cDate
          /\ total_bullets(cEntry) = 0
    /\ (cOp = "serialize" /\ cVia = "empty_template") =>
          /\ cSrc = Some(parse(cDate, empty_template))
          /\ cText = <<>>
          /\ cText # empty_template

\* the template was parsed and the parsed entry serialized
C14_Witness ==
    /\ cOp = "serialize"
    /\ cVia = "empty_template"
    /\ cSrc = Some(Entry_new(cDate))
    /\ cText = <<>>
    /\ empty_template # <<>>

\* The canonical order of the sections and the text of one section: its
\* header line, one line per bullet in insertion order, a blank line.
CanonicalOrder == <<"Task", "Event", "Note", "Priority", "Inspiration", "Insight", "Misstep">>

RECURSIVE BulletLines(_, _)
BulletLines(bs, i) ==
    IF i > Len(bs) THEN <<>> ELSE bs[i].content \o <<NL>> \o BulletLines(bs, i + 1)

SectionText(e, t) ==
    <<HASH, SP, SectionWord(t), NL>> \o BulletLines(get_bullets(e, t), 1) \o <<NL>>

RECURSIVE SectionTexts(_, _, _)
SectionTexts(e, ts, i) ==
    IF i > Len(ts) THEN <<>> ELSE SectionText(e, ts[i]) \o SectionTexts(e, ts, i + 1)

\* C16: the text serialize returns is, in the order Task, Event, Note,
\* Priority, Inspiration, Insight, Misstep, one section for each type of
\* which the entry has a bullet and nothing for the other types; a section
\* lists its bullets in insertion order.
C16_CanonicalSections ==
    cOp = "serialize" =>
        cText = SectionTexts(cSrc[1],
                             SelectSeq(CanonicalOrder,
                                       LAMBDA t : get_bullets(cSrc[1], t) # <<>>), 1)

\* an entry with a misstep and a task, serialized
C16_Witness ==
    /\ cOp = "serialize"
    /\ get_bullets(cSrc[1], "Misstep") # <<>>
    /\ get_bullets(cSrc[1], "Task") # <<>>
    /\ get_bullets(cSrc[1], "Event") = <<>>

\* The lines of a text with their leading and trailing blanks removed.
TrimEach(ls) == [i \in 1..Len(ls) |-> trim(ls[i])]

IsBlankLine(ls, i) == ls[i] = <<>>

IsHeaderLine(ls, i) == ls[i] # <<>> /\ Head(ls[i]) = HASH

IsBulletLine(ls, i) == ls[i] # <<>> /\ Head(ls[i]) # HASH

SameIgnoringCase(a, b) ==
    /\ Len(a) = Len(b)
    /\ \A k \in 1..Len(a) : LowerTok(a[k]) = LowerTok(b[k])

\* line j is the header of type t
Recognized(ls, j, t) ==
    IsHeaderLine(ls, j) /\ SameIgnoringCase(ls[j], <<HASH, SP, SectionWord(t)>>)

RecognizedHeader(ls, j) == \E t \in BulletType : Recognized(ls, j, t)

\* line j is the last header line before line i
GoverningHeader(ls, i, j) ==
    /\ j < i
    /\ IsHeaderLine(ls, j)
    /\ \A k \in (j + 1)..(i - 1) : ~IsHeaderLine(ls, k)

\* the bullet lines under a header of type t, in the order of the text
RECURSIVE LinesUnder(_, _, _)
LinesUnder(ls, t, i) ==
    IF i > Len(ls) THEN <<>>
    ELSE (IF /\ IsBulletLine(ls, i)
             /\ \E j \in 1..(i - 1) : GoverningHeader(ls, i, j) /\ Recognized(ls, j, t)
          THEN <<ls[i]>> ELSE <<>>) \o LinesUnder(ls, t, i + 1)

\* C17: parse matches the trimmed header lines against the seven canonical
\* headers without regard to case, and each non-blank, non-header line under
\* a recognized header becomes exactly one bullet of the header's type
\* whose content is the trimmed line.
C17_HeadersAndBulletLines ==
    cOp = "parsed" =>
        LET Holds(ls) ==
                \A t \in BulletType :
                    /\ Contents(get_bullets(cEntry, t)) = LinesUnder(ls, t, 1)
                    /\ \A k \in 1..Len(get_bullets(cEntry, t)) :
                           get_bullets(cEntry, t)[k].bullet_type = t
        IN  Holds(TrimEach(lines(cText)))

\* a text with a header in capitals and a padded line under it, parsed
C17_Witness ==
    /\ cOp = "parsed"
    /\ cVia = "raw"
    /\ LET Found(raw, ls) ==
               \E j \in 1..(Len(ls) - 1) :
                   /\ Recognized(ls, j, "Task")
                   /\ ls[j] # <<HASH, SP, SectionWord("Task")>>
                   /\ IsBulletLine(ls, j + 1)
                   /\ raw[j + 1] # ls[j + 1]
       IN  Found(lines(cText), TrimEach(lines(cText)))
    /\ get_bullets(cEntry, "Task") # <<>>

\* bullet lines that no recognized header governs
DroppedLines(ls) ==
    {i \in 1..Len(ls) :
        /\ IsBulletLine(ls, i)
        /\ \A j \in 1..(i - 1) : GoverningHeader(ls, i, j) => ~RecognizedHeader(ls, j)}

\* C18: parse returns an Entry of the given date for every text; the lines
\* before the first recognized header and the lines after an unrecognized
\* header, up to the next recognized one, give no bullet.
C18_ParseNeverFails ==
    /\ cOp \in {"raw", "serialize", "serialize_for_editing", "empty_template"} =>
          LET IsEntry(e) == e.date = cDate /\ DOMAIN e.bullets \subseteq BulletType
          IN  IsEntry(parse(cDate, cText))
    /\ cOp = "parsed" =>
          /\ cEntry.date = cDate
          /\ LET Kept(ls) ==
                     Cardinality({i \in 1..Len(ls) : IsBulletLine(ls, i)})
                         - Cardinality(DroppedLines(ls))
             IN  total_bullets(cEntry) = Kept(TrimEach(lines(cText)))

\* a text whose line after an unrecognized header is dropped, parsed
C18_Witness ==
    /\ cOp = "parsed"
    /\ cVia = "raw"
    /\ LET Found(ls) ==
               \E i \in DroppedLines(ls) : \E j \in 1..(i - 1) : \E h \in 1..(j - 1) :
                   GoverningHeader(ls, i, j) /\ RecognizedHeader(ls, h)
       IN  Found(TrimEach(lines(cText)))

\* C15: for every Entry E, parse(date, serialize(E)) equals E: the same date,
\* the same number of bullets and, for each type, the same bullets (content,
\* type) in the same order.
C15_RoundTripSerialize ==
    (cOp = "parsed" /\ cVia = "serialize") =>
        /\ cEntry.date = cSrc[1].date
        /\ total_bullets(cEntry) = total_bullets(cSrc[1])
        /\ \A t \in BulletType :
              /\ Contents(get_bullets(cEntry, t)) = Contents(get_bullets(cSrc[1], t))
              /\ \A i \in 1..Len(get_bullets(cEntry, t)) :
                    get_bullets(cEntry, t)[i].bullet_type = t

\* C1: for every Entry E, parse(date, serialize_for_editing(E)) has, for each of
\* the seven bullet types, the same bullets as E, in the same order, with the
\* same content.
C1_RoundTripEditing ==
    (cOp = "parsed" /\ cVia = "serialize_for_editing")
        => SameContents(cEntry, cSrc[1])


\* The seven header words in canonical order, and the text made of each
\* header line followed by one blank line.
TemplateHeaders ==
    <<"Tasks", "Events", "Notes", "Priority", "Inspiration", "Insights", "Missteps">>

RECURSIVE TemplateFrom(_)
TemplateFrom(k) ==
    IF k > Len(TemplateHeaders) THEN <<>>
    ELSE <<HASH, SP, TemplateHeaders[k], NL, NL>> \o TemplateFrom(k + 1)

\* From line i on, the lines ls hold the headers k, k + 1, ... in this order.
RECURSIVE HeadersFrom(_, _, _)
HeadersFrom(ls, i, k) ==
    IF k > Len(TemplateHeaders) THEN TRUE
    ELSE IF i > Len(ls) THEN FALSE
    ELSE IF ls[i] = <<HASH, SP, TemplateHeaders[k]>> THEN HeadersFrom(ls, i + 1, k + 1)
    ELSE HeadersFrom(ls, i + 1, k)

\* C32: empty_template() is serialize_for_editing of a brand-new empty
\* Entry, namely the seven headers in canonical order, each followed by one
\* blank line; and the text serialize_for_editing makes of any entry holds
\* all seven header lines in that order.
C32_TemplateIsEditingOfEmpty ==
    /\ cOp = "empty_template" =>
          /\ cText = serialize_for_editing(Entry_new(cDate))
          /\ cText = TemplateFrom(1)
    /\ cOp = "serialize_for_editing" => HeadersFrom(lines(cText), 1, 1)

\* the editing text of an entry with one bullet: six sections without one
C32_Witness ==
    /\ cOp = "serialize_for_editing"
    /\ total_bullets(cSrc[1]) = 1
    /\ cText # empty_template



\* C40: parsing normalizes.  The Entry that parse returns for any text is
\* returned again when either of its serializations is parsed, and for every
\* Entry, parsed or built by a caller, the two serializations parse to the
\* same Entry.
C40_ParseNormalizes ==
    /\ cOp = "parsed" =>
          /\ parse(cDate, serialize(cEntry)) = cEntry
          /\ parse(cDate, serialize_for_editing(cEntry)) = cEntry
    /\ (cOp = "parsed" /\ cVia = "serialize") =>
          cEntry = parse(cDate, serialize_for_editing(cSrc[1]))
    /\ (cOp = "parsed" /\ cVia = "serialize_for_editing") =>
          cEntry = parse(cDate, serialize(cSrc[1]))

\* an edited text with an upper-case header and untrimmed lines, parsed to two
\* bullets, that is not the text either serialization writes
C40_Witness ==
    /\ cOp = "parsed"
    /\ cVia = "raw"
    /\ total_bullets(cEntry) = 2
    /\ \E i \in DOMAIN lines(cText) :
          /\ trim(lines(cText)[i]) # lines(cText)[i]
          /\ trim(lines(cText)[i]) \in {b.content : b \in {get_bullets(cEntry, "Task")[k] : k \in DOMAIN get_bullets(cEntry, "Task")}}
    /\ cText # serialize(cEntry)
    /\ cText # serialize_for_editing(cEntry)

=============================================================================
